---------------------------- MODULE Spec2Model ----------------------------
(***************************************************************************)
(* Verification model of the legislation-analysis pipeline:                *)
(*   - LegislacaoWorkflow (workflow.py): the stage graph and run()         *)
(*   - reform_knowledge_base.py: detector, curated lists, merge helper     *)
(*   - DateExtractionAgent / SystemChangesAgent: knowledge-base fallbacks  *)
(*   - ValidationAgent (validation_agent.py): grounding and correction     *)
(*   - ReviewAgent (review_agent.py): clean-up of tax-change records       *)
(*                                                                         *)
(* Texts are sequences of words; the string a text stands for is its words *)
(* joined by single blanks.  Accented letters are written without accent   *)
(* (every accented letter is one character, so lengths are unchanged).     *)
(***************************************************************************)
EXTENDS Integers, Sequences, FiniteSets, TLC

VARIABLES
    mode,               \* which entry point drives the behaviour: "run", "validate", "merge"
    runs,               \* calls of run() made so far in this process
    pc,                 \* position of the run: next stage to execute, or a terminal position
    trace,              \* stages executed so far, in order
    query,              \* run(query=...)
    url,                \* run(url=...)
    urls,               \* state["urls"] (run(urls=...) before the input check)
    fetch_log,          \* the downloads tried by the search stage, with what each gave
    web_results,        \* state["web_results"]
    legislation_type,   \* state["legislation_type"]
    raw_text,           \* state["raw_extraction"]["raw_text"]
    vigencias,          \* state["date_extraction"]["vigencias"]
    date_key,           \* state["date_extraction"]["known_law_key"]
    count,              \* state["date_extraction"]["count"], 0 while it is not written
    percentuais,        \* state["quantification"]["percentuais"]
    completeness,       \* state["validation_results"]["completeness_score"], in 1/3000
    needs_enhancement,  \* state["validation_results"]["needs_enhancement"]
    enhanced,           \* state["enhanced_data"] is non-empty
    impact_done,        \* state["impact_analysis"] is non-empty
    aliquotas,          \* state["system_changes"]["aliquotas"]
    known_law_key,      \* state["known_law_key"]
    validation_status,  \* state["validation_status"]: << >> for None, else << the dictionary >>
    dell_done,          \* state["dell_analysis"] is non-empty
    final_analysis,     \* state["final_analysis"]: << >> for "", else << the report's sections >>
    failure,            \* the exception that ended the run, "none" while there is none
    llm_calls,          \* number of escalation calls issued by ValidationAgent
    given,              \* input of the stage just executed: the answer of its text-generation
                        \* call, or the records handed to the validation
    merged,             \* result of the merge operation under study (mode "merge")
    kb,                 \* KNOWLEDGE_BASE["LC_214"]: its "vigencias" and "system_changes"
    current_year        \* datetime.now().year

vars == << mode, runs, pc, trace, query, url, urls, fetch_log, web_results, legislation_type,
           raw_text, vigencias,
           date_key, count, percentuais, completeness, needs_enhancement, enhanced,
           impact_done, aliquotas, known_law_key, validation_status, dell_done,
           final_analysis, failure, llm_calls, given, merged, kb, current_year >>

None == "None"

(***************************************************************************)
(* Bounds of the model                                                     *)
(***************************************************************************)
MaxTextLen == 3     \* words in a source text of the validation study
MaxAliq == 2        \* tax-change records handed to validation
MaxCorr == 1        \* corrections returned by one escalation call
MaxRuns == 2        \* calls of run() in one process
MaxVigs == 9        \* entries in a date list returned by the date extraction call

(***************************************************************************)
(* Words and their character lengths                                       *)
(***************************************************************************)
PadLen == 300       \* length of the filler word "pad" (a run of unrelated text)
FillLen == 96       \* length of the filler word "fill" (a shorter run of unrelated text)

Words == { "PIS", "COFINS", "II", "III", ",", "pad", "suspensa", "suspensao",
           "isento", "aliquota", "zero", "reducao", "credito", "imposto",
           "de", "importacao", "IBS", "CBS", "seletivo", "redata",
           "17/09/2025", "17-09-2025", "2025", "ate", "31/12/2026", "8%",
           "em", "2026", "fill", "fica", "a", "exigencia", "da", "contribuicao",
           "Contribuicao", "para", "o", "reforma", "tributaria", "conforme",
           "incisos" }

WLen(w) ==
    CASE w = "PIS" -> 3        [] w = "COFINS" -> 6     [] w = "II" -> 2
      [] w = "III" -> 3        [] w = "," -> 1          [] w = "pad" -> PadLen
      [] w = "suspensa" -> 8   [] w = "suspensao" -> 9  [] w = "isento" -> 6
      [] w = "aliquota" -> 8   [] w = "zero" -> 4       [] w = "reducao" -> 7
      [] w = "credito" -> 7    [] w = "imposto" -> 7    [] w = "de" -> 2
      [] w = "importacao" -> 10 [] w = "IBS" -> 3       [] w = "CBS" -> 3
      [] w = "seletivo" -> 8   [] w = "redata" -> 6     [] w = "17/09/2025" -> 10
      [] w = "17-09-2025" -> 10 [] w = "2025" -> 4      [] w = "ate" -> 3
      [] w = "31/12/2026" -> 10 [] w = "8%" -> 2        [] w = "em" -> 2
      [] w = "2026" -> 4       [] w = "fill" -> FillLen [] w = "fica" -> 4
      [] w = "a" -> 1          [] w = "exigencia" -> 9  [] w = "da" -> 2
      [] w = "contribuicao" -> 12 [] w = "para" -> 4    [] w = "o" -> 1
      [] w = "Contribuicao" -> 12 [] w = "reforma" -> 7 [] w = "tributaria" -> 10
      [] w = "conforme" -> 8   [] w = "incisos" -> 7
      [] OTHER -> 1

\* str.lower() on one word
Lower(w) ==
    CASE w = "PIS" -> "pis"    [] w = "COFINS" -> "cofins"  [] w = "II" -> "ii"
      [] w = "III" -> "iii"    [] w = "IBS" -> "ibs"        [] w = "CBS" -> "cbs"
      [] w = "Contribuicao" -> "contribuicao"
      [] OTHER -> w

\* str.lower() on a text
LowerText(t) == [i \in 1..Len(t) |-> Lower(t[i])]

RECURSIVE StartOf(_, _)
\* offset of the first character of word i in the string of text t
StartOf(t, i) == IF i = 1 THEN 0 ELSE StartOf(t, i - 1) + WLen(t[i - 1]) + 1

EndOf(t, i) == StartOf(t, i) + WLen(t[i])

\* len(text)
TextLen(t) == IF Len(t) = 0 THEN 0 ELSE EndOf(t, Len(t))


(***************************************************************************)
(* ValidationAgent: pattern tables (validation_agent.py:38-83)             *)
(* A pattern is the sequence of lower-case words it needs, one after the   *)
(* other, plus the kind of look-ahead it carries.  Alternatives of the     *)
(* source tables that need a word outside Words cannot match any text of   *)
(* the model and are left out.                                             *)
(***************************************************************************)
Pat(ws, la) == [ws |-> ws, la |-> la]

\* self.tributo_patterns
tributo_patterns(key) ==
    CASE key = "PIS" -> << Pat(<<"pis">>, "none"),
                           Pat(<<"contribuicao", "para", "o", "pis">>, "none") >>
      [] key = "COFINS" -> << Pat(<<"cofins">>, "none") >>
      [] key = "II" -> << Pat(<<"imposto", "de", "importacao">>, "none"),
                          Pat(<<"ii">>, "ii") >>
      [] key = "IBS" -> << Pat(<<"ibs">>, "none") >>
      [] key = "CBS" -> << Pat(<<"cbs">>, "none") >>
      [] key = "IS" -> << Pat(<<"imposto", "seletivo">>, "none") >>
      [] OTHER -> << >>

TributoTableKeys == { "PIS", "COFINS", "II", "IBS", "CBS", "IS" }

\* the keys of self.change_type_patterns, in dictionary order
ChangeTypeKeys == << "SUSPENSAO", "ISENCAO", "ALIQUOTA 0%", "REDUCAO", "CREDITO" >>

Composite == "SUSPENSAO -> ALIQUOTA 0%"

\* self.change_type_patterns
change_type_patterns(key) ==
    CASE key = "SUSPENSAO" -> { <<"suspensao">> }
      [] key = "ISENCAO" -> { <<"isento">> }
      [] key = "ALIQUOTA 0%" -> { <<"aliquota", "zero">>, <<"aliquota", "de", "zero">> }
      [] key = "REDUCAO" -> { <<"reducao">> }
      [] key = "CREDITO" -> { <<"credito">> }
      [] OTHER -> { }

\* the words ws stand at positions i, i+1, ... of the lower-case text lt
PhraseAt(lt, i, ws) ==
    /\ i + Len(ws) - 1 <= Len(lt)
    /\ \A k \in 1..Len(ws) : lt[i + k - 1] = ws[k]

\* (?!\s*[-,.]?\s*(?:do|da|de|iii|iv|v)\b) after the word at position i
IILookaheadOk(lt, i) ==
    LET stop == { "do", "da", "de", "iii", "iv", "v" }
        punct == { "-", ",", "." }
        n1 == IF i + 1 <= Len(lt) THEN lt[i + 1] ELSE None
        n2 == IF i + 2 <= Len(lt) THEN lt[i + 2] ELSE None
    IN  /\ n1 \notin stop
        /\ ~(n1 \in punct /\ n2 \in stop)

\* pattern p matches the lower-case text lt starting at word i
PatAt(lt, i, p) ==
    /\ PhraseAt(lt, i, p.ws)
    /\ p.la = "ii" => IILookaheadOk(lt, i + Len(p.ws) - 1)
    \* a trailing \b after ")" needs a letter right after it: never before a blank
    /\ p.la # "word"

\* the name of a tax that has no entry in the table, as the words of
\* rf'\b{re.escape(tributo.lower())}\b'
FallbackPat(tributo) ==
    CASE tributo = "Analise detalhada necessaria" ->
             Pat(<<"analise", "detalhada", "necessaria">>, "none")
      [] tributo = "II (Imposto de Importacao)" ->
             Pat(<<"ii", "(imposto", "de", "importacao)">>, "word")
      [] OTHER -> Pat(<<Lower(tributo)>>, "none")

\* tributo.upper() with the prefixes "CONTRIBUICAO PARA O/A " removed, stripped
TributoKey(tributo) ==
    CASE tributo = "Contribuicao para o PIS" -> "PIS"
      [] tributo = "Contribuicao para o COFINS" -> "COFINS"
      [] tributo = "II (Imposto de Importacao)" -> "II (IMPOSTO DE IMPORTACAO)"
      [] tributo = "Analise detalhada necessaria" -> "ANALISE DETALHADA NECESSARIA"
      [] OTHER -> tributo

\* self.tributo_patterns.get(key, [fallback])
PatternsFor(key, tributo) ==
    IF key \in TributoTableKeys THEN tributo_patterns(key) ELSE << FallbackPat(tributo) >>

\* ValidationAgent._validate_tributo
validate_tributo(tributo, original_lower) ==
    LET patterns == PatternsFor(TributoKey(tributo), tributo)
    IN  \E k \in 1..Len(patterns) : \E i \in 1..Len(original_lower) :
            PatAt(original_lower, i, patterns[k])

(***************************************************************************)
(* ValidationAgent: change-type grounding (validation_agent.py:227-316)    *)
(***************************************************************************)
WINDOW == 300

Max(a, b) == IF a >= b THEN a ELSE b
Min(a, b) == IF a <= b THEN a ELSE b

\* positions where pattern p matches, in text order (re.finditer)
MatchesOf(lt, p) ==
    SelectSeq([i \in 1..Len(lt) |-> i], LAMBDA i : PatAt(lt, i, p))

\* text[start:end] around the match of p at word i, as a pair of offsets
ContextOf(t, i, p, window) ==
    [lo |-> Max(0, StartOf(t, i) - window),
     hi |-> Min(TextLen(t), EndOf(t, i + Len(p.ws) - 1) + window)]

RECURSIVE ContextsFrom(_, _, _, _)
ContextsFrom(t, patterns, k, window) ==
    IF k > Len(patterns) THEN << >>
    ELSE LET ms == MatchesOf(t, patterns[k])
         IN  [j \in 1..Len(ms) |-> ContextOf(t, ms[j], patterns[k], window)]
             \o ContextsFrom(t, patterns, k + 1, window)

\* _find_tributo_contexts giving the whole text as the only context
find_tributo_contexts_whole_text(tributo, text, window) ==
    << [lo |-> 0, hi |-> TextLen(text)] >>

\* ValidationAgent._find_tributo_contexts (text is already lower-case)
find_tributo_contexts(tributo, text, window) ==
    ContextsFrom(text, PatternsFor(TributoKey(tributo), tributo), 1, window)

\* re.search of one of the patterns of change type key in the context ctx
TypeInContext(t, ctx, key) ==
    \E ws \in change_type_patterns(key) : \E i \in 1..Len(t) :
        /\ PhraseAt(t, i, ws)
        /\ StartOf(t, i) >= ctx.lo
        /\ EndOf(t, i + Len(ws) - 1) <= ctx.hi

\* the first key, in dictionary order, one of whose patterns is in ctx
FirstTypeIn(t, ctx) ==
    LET hits == { k \in 1..Len(ChangeTypeKeys) : TypeInContext(t, ctx, ChangeTypeKeys[k]) }
    IN  IF hits = {} THEN None
        ELSE ChangeTypeKeys[CHOOSE k \in hits : \A h \in hits : k <= h]

\* the first entry of types that is not None
FirstFound(types) ==
    IF \A c \in 1..Len(types) : types[c] = None THEN None
    ELSE types[CHOOSE c \in 1..Len(types) :
                   types[c] # None /\ \A h \in 1..(c - 1) : types[h] = None]

\* tipo_encontrado: the type found in the first context that has one
TipoEncontrado(t, contexts) ==
    FirstFound([c \in 1..Len(contexts) |-> FirstTypeIn(t, contexts[c])])

\* the keys of change_type_patterns that are substrings of tipo.upper()
KeysIn(tipo) ==
    CASE tipo = "SUSPENSAO" -> { "SUSPENSAO" }
      [] tipo = "ISENCAO" -> { "ISENCAO" }
      [] tipo = "ALIQUOTA 0%" -> { "ALIQUOTA 0%" }
      [] tipo = "REDUCAO" -> { "REDUCAO" }
      [] tipo = "CREDITO" -> { "CREDITO" }
      [] tipo = Composite -> { "SUSPENSAO", "ALIQUOTA 0%" }
      [] OTHER -> { }

\* "0%" in tipo_upper or "ZERO" in tipo_upper
HasZero(tipo) == tipo \in { "ALIQUOTA 0%", Composite }

\* tipo_to_check of _validate_change_type
TipoToCheck(tipo) ==
    IF "SUSPENSAO" \in KeysIn(tipo) /\ HasZero(tipo) THEN "SUSPENSAO"
    ELSE LET hits == { k \in 1..Len(ChangeTypeKeys) : ChangeTypeKeys[k] \in KeysIn(tipo) }
         IN  IF hits = {} THEN None
             ELSE ChangeTypeKeys[CHOOSE k \in hits : \A h \in hits : k <= h]

\* secondary_check of _validate_change_type
SecondaryCheck(tipo) ==
    IF "SUSPENSAO" \in KeysIn(tipo) /\ HasZero(tipo) THEN "ALIQUOTA 0%" ELSE None

\* "if not tributo_contexts: tributo_contexts = [text]"
OrWholeText(found, original_lower) ==
    IF found = << >> THEN << [lo |-> 0, hi |-> TextLen(original_lower)] >> ELSE found

\* the verdict of _validate_change_type once tipo_encontrado is known
ChangeTypeVerdict(tipo_to_check, secondary_check, tipo_encontrado) ==
    IF tipo_to_check = None THEN [valid |-> FALSE, tipo |-> None]
    ELSE IF tipo_encontrado # None
    THEN IF tipo_to_check = tipo_encontrado
         THEN [valid |-> TRUE, tipo |-> tipo_encontrado]
         ELSE IF secondary_check # None /\ secondary_check = tipo_encontrado
         THEN [valid |-> TRUE, tipo |-> Composite]
         ELSE [valid |-> FALSE, tipo |-> tipo_encontrado]
    ELSE [valid |-> FALSE, tipo |-> None]

\* ValidationAgent._validate_change_type: (is_valid, tipo_correto)
validate_change_type(tributo, tipo_mudanca, original_lower) ==
    ChangeTypeVerdict(
        TipoToCheck(tipo_mudanca), SecondaryCheck(tipo_mudanca),
        TipoEncontrado(original_lower,
                       OrWholeText(find_tributo_contexts(tributo, original_lower, WINDOW),
                                   original_lower)))

\* ValidationAgent._get_situacao_nova: the template chosen and the tax it names
get_situacao_nova(tipo_correto, tributo) ==
    IF tipo_correto \in { "SUSPENSAO", Composite, "ISENCAO", "ALIQUOTA 0%",
                          "REDUCAO", "CREDITO" }
    THEN << "template", tipo_correto, tributo >>
    ELSE << "template", "Alteracao", tributo >>

(***************************************************************************)
(* ValidationAgent: dates (validation_agent.py:400-427)                    *)
(***************************************************************************)
\* "ano" in data.lower()
IsDuration(data) == data \in { "5 anos", "10 anos", "5 ano(s)" }

\* the date written in a word, with "/" as separator, and the years written in it
WordDate(w) ==
    CASE w \in { "17/09/2025", "17-09-2025" } -> "17/09/2025"
      [] w = "31/12/2026" -> "31/12/2026"
      [] OTHER -> None

WordYears(w) ==
    CASE w \in { "17/09/2025", "17-09-2025", "2025" } -> { 2025 }
      [] w \in { "31/12/2026", "2026" } -> { 2026 }
      [] OTHER -> { }

\* re.search(r'20\d{2}', data): the first year written in data, 0 if there is none
YearOf(data) ==
    CASE data \in { "17/09/2025", "17-09-2025", "2025", "16/01/2025" } -> 2025
      [] data \in { "2026", "31/12/2026" } -> 2026
      [] data = "2027" -> 2027           [] data = "2029-2032" -> 2029
      [] data = "31/12/2032" -> 2032     [] data = "01/01/2033" -> 2033
      [] data = "01/01/2020" -> 2020
      [] OTHER -> 0

IsBareYear(data) == data \in { "2025", "2026", "2027" }

\* re.search(data.replace("/", "[-/]"), word) or the escaped date between \b
WordHasDate(w, data) ==
    \/ IsBareYear(data) /\ YearOf(data) \in WordYears(w)
    \/ ~IsBareYear(data) /\ (w = data \/ WordDate(w) = data)

\* year in word
WordHasYear(w, year) == year \in WordYears(w)

\* the test of one entry in ValidationAgent._validate_vigencias
VigenciaGrounded(data, original_lower) ==
    \/ IsDuration(data)
    \/ data = "" /\ original_lower = original_lower      \* the empty pattern matches anywhere
    \/ \E i \in 1..Len(original_lower) : WordHasDate(original_lower[i], data)
    \/ /\ YearOf(data) # 0
       /\ \E i \in 1..Len(original_lower) : WordHasYear(original_lower[i], YearOf(data))

\* ValidationAgent._validate_vigencias
validate_vigencias(vigs, original_lower) ==
    SelectSeq(vigs, LAMBDA v : VigenciaGrounded(v.data, original_lower))

(***************************************************************************)
(* ValidationAgent.validate (validation_agent.py:85-209)                   *)
(***************************************************************************)
RECURSIVE LongestFrom(_, _, _)
\* max(sources, key=len): the first source of maximal length
LongestFrom(sources, k, best) ==
    IF k > Len(sources) THEN best
    ELSE LongestFrom(sources, k + 1,
                     IF TextLen(sources[k]) > TextLen(best) THEN sources[k] ELSE best)

\* ValidationAgent._get_original_text
get_original_text(raw, webs) ==
    LET contents == SelectSeq([i \in 1..Len(webs) |-> webs[i].content],
                              LAMBDA c : c # << >>)
        sources == << raw, raw >> \o contents
    IN  LongestFrom(sources, 2, sources[1])

\* the branch of the loop body taken on the verdict r of _validate_change_type
ApplyVerdict(aliq, r) ==
    IF r.valid THEN [aliq |-> aliq, corr |-> 0, errs |-> << >>]
    ELSE IF r.tipo # None
    THEN [aliq |-> [aliq EXCEPT
                      !.tipo_mudanca = r.tipo,
                      !.descricao_completa = << aliq.tributo, r.tipo >>,
                      !.situacao_nova = get_situacao_nova(r.tipo, aliq.tributo)],
          corr |-> 1, errs |-> << >>]
    ELSE [aliq |-> aliq, corr |-> 0,
          errs |-> << [kind |-> "unconfirmed", tributo |-> aliq.tributo,
                       tipo |-> aliq.tipo_mudanca] >>]

\* the outcome of the loop body of validate for one record
CheckRecord(aliq, original_lower) ==
    IF ~validate_tributo(aliq.tributo, original_lower)
    THEN [aliq |-> aliq, corr |-> 0,
          errs |-> << [kind |-> "not_found", tributo |-> aliq.tributo,
                       tipo |-> aliq.tipo_mudanca] >>]
    ELSE ApplyVerdict(aliq,
                      validate_change_type(aliq.tributo, aliq.tipo_mudanca, original_lower))

RECURSIVE SumCorr(_, _)
SumCorr(rs, k) == IF k > Len(rs) THEN 0 ELSE rs[k].corr + SumCorr(rs, k + 1)

RECURSIVE CatErrs(_, _)
CatErrs(rs, k) == IF k > Len(rs) THEN << >> ELSE rs[k].errs \o CatErrs(rs, k + 1)

\* step 1 of validate: the loop over system_changes.aliquotas
Collect(rs) ==
    [aliquotas |-> [i \in 1..Len(rs) |-> rs[i].aliq],
     corrections_made |-> SumCorr(rs, 1),
     errors |-> CatErrs(rs, 1)]

DeterministicStep(aliqs, original_lower) ==
    Collect([i \in 1..Len(aliqs) |-> CheckRecord(aliqs[i], original_lower)])

\* _validate_via_llm issues the request only when some record has tributo and tipo
LLMRequestIssued(aliqs) ==
    \E i \in 1..Len(aliqs) : aliqs[i].tributo # "" /\ aliqs[i].tipo_mudanca # ""

\* one correction of the escalation applied to every record of that tax
ApplyCorrection(aliqs, c) ==
    [i \in 1..Len(aliqs) |->
        IF aliqs[i].tributo = c.tributo
        THEN [aliqs[i] EXCEPT
                !.tipo_mudanca = c.tipo_correto,
                !.descricao_completa = << c.tributo, c.tipo_correto >>,
                !.situacao_nova = get_situacao_nova(c.tipo_correto, c.tributo)]
        ELSE aliqs[i]]

RECURSIVE ApplyCorrections(_, _, _)
ApplyCorrections(aliqs, cs, k) ==
    IF k > Len(cs) THEN aliqs
    ELSE ApplyCorrections(ApplyCorrection(aliqs, cs[k]), cs, k + 1)

RECURSIVE CountApplied(_, _, _)
\* corrections_made += 1 for every record a correction is applied to
CountApplied(aliqs, cs, k) ==
    IF k > Len(cs) THEN 0
    ELSE Cardinality({ i \in 1..Len(aliqs) : aliqs[i].tributo = cs[k].tributo })
         + CountApplied(aliqs, cs, k + 1)

\* steps 2 and 3 of validate, after the loop has produced det
Escalation(det, vigs, llm_corrections, original_lower, called) ==
    [aliquotas |-> ApplyCorrections(det.aliquotas,
                                    IF called THEN llm_corrections ELSE << >>, 1),
     vigencias |-> validate_vigencias(vigs, original_lower),
     status |-> << [validated |-> TRUE,
                    corrections_made |->
                        det.corrections_made
                        + CountApplied(det.aliquotas,
                                       IF called THEN llm_corrections ELSE << >>, 1),
                    errors |-> det.errors,
                    confidence |-> IF det.errors = << >> THEN "alta" ELSE "media"] >>,
     called |-> called]

\* the escalation entered whenever there is an error, however many
EscalationCalledUnbounded(det) ==
    det.errors # << >> /\ LLMRequestIssued(det.aliquotas)

\* "if errors_found and len(errors_found) <= 3", and the request is issued
EscalationCalled(det) ==
    det.errors # << >> /\ Len(det.errors) <= 3 /\ LLMRequestIssued(det.aliquotas)

ValidateAfterLoop(det, vigs, llm_corrections, original_lower) ==
    Escalation(det, vigs, llm_corrections, original_lower, EscalationCalled(det))

ValidateOn(original_text, aliqs, vigs, llm_corrections) ==
    IF original_text = << >>
    THEN [aliquotas |-> aliqs, vigencias |-> vigs, status |-> << >>, called |-> FALSE]
    ELSE ValidateAfterLoop(DeterministicStep(aliqs, LowerText(original_text)),
                           vigs, llm_corrections, LowerText(original_text))

\* validate, given the answer llm_corrections the escalation call would return;
\* the status is << >> for None and a one-element sequence for the dictionary
validate(raw, webs, aliqs, vigs, llm_corrections) ==
    ValidateOn(get_original_text(raw, webs), aliqs, vigs, llm_corrections)

(***************************************************************************)
(* reform_knowledge_base.py                                                *)
(* A record carries in "kb" the position of the knowledge-base entry it is *)
(* (the same dictionary object), or 0 when it is a dictionary of its own.  *)
(***************************************************************************)
\* A contexto is a text and the number of times the prefix "Referencia legal: "
\* has been put in front of it.
Ctx(text) == [text |-> text, refs |-> 0]

Vig(data, contexto, tipo, k) == [data |-> data, contexto |-> contexto, tipo |-> tipo, kb |-> k]

Aliq(tributo, tipo, desc, sit, k) ==
    [tributo |-> tributo, tipo_mudanca |-> tipo, descricao_completa |-> desc,
     situacao_nova |-> sit, kb |-> k]

\* LC_214_DATA["vigencias"]
LC_214_vigencias ==
    << Vig("16/01/2025", Ctx("Publicacao e inicio da vigencia da Lei Complementar no 214"),
           "inicio_vigencia", 1),
       Vig("2026", Ctx("Inicio do periodo de teste"), "inicio_vigencia", 2),
       Vig("2027", Ctx("CBS entra em vigor com aliquota cheia; IS (Imposto Seletivo)"),
           "inicio_vigencia", 3),
       Vig("2029-2032", Ctx("Periodo de transicao gradual"), "prazo_transicao", 4),
       Vig("31/12/2032", Ctx("Ultimo ano de coexistencia"), "prazo_final", 5),
       Vig("01/01/2033", Ctx("Extincao total de PIS, COFINS, ICMS e ISS"), "prazo_final", 6) >>

\* LC_214_DATA["system_changes"]
LC_214_system_changes ==
    << Aliq("IBS", "NOVO TRIBUTO", <<"IBS", "NOVO TRIBUTO", "substitui ICMS+ISS">>, <<"kb", "IBS">>, 1),
       Aliq("CBS", "NOVO TRIBUTO", <<"CBS", "NOVO TRIBUTO", "substitui PIS+COFINS">>, <<"kb", "CBS">>, 2),
       Aliq("IS", "NOVO TRIBUTO", <<"IS", "NOVO TRIBUTO", "Imposto Seletivo">>, <<"kb", "IS">>, 3) >>

\* KNOWLEDGE_BASE as the module is loaded (MPV_1318_DATA has neither list)
KNOWLEDGE_BASE == [vigencias |-> LC_214_vigencias, system_changes |-> LC_214_system_changes]

KnownKeys == { "LC_214", "MPV_1318" }

\* get_vigencias_for_legislation, reading the knowledge base b
get_vigencias_for_legislation(b, key) == IF key = "LC_214" THEN b.vigencias ELSE << >>

\* get_system_changes_for_legislation, reading the knowledge base b
get_system_changes_for_legislation(b, key) == IF key = "LC_214" THEN b.system_changes ELSE << >>

\* fragment in url_lower
UrlHas(u, fragment) ==
    CASE fragment = "lcp214" -> u = "https://planalto/lcp/lcp214.htm"
      [] fragment = "lcp/lcp214" -> u = "https://planalto/lcp/lcp214.htm"
      [] fragment = "/lcp/214" -> FALSE
      [] fragment = "mpv1318" -> u = "https://planalto/mpv/mpv1318.htm"
      [] fragment = "mpv/mpv1318" -> u = "https://planalto/mpv/mpv1318.htm"
      [] OTHER -> FALSE

DETECT_PREFIX == 5000

\* phrase in content.lower()[:5000]; content is a sequence of texts, the parts
\* that "\n\n".join put together (one part when the content is one document)
RECURSIVE PartStart(_, _)
PartStart(parts, d) ==
    IF d = 1 THEN 0 ELSE PartStart(parts, d - 1) + TextLen(parts[d - 1]) + 2

ContentHas(parts, ws) ==
    \E d \in 1..Len(parts) : \E i \in 1..Len(parts[d]) :
        /\ PhraseAt(LowerText(parts[d]), i, ws)
        /\ PartStart(parts, d) + EndOf(parts[d], i + Len(ws) - 1) <= DETECT_PREFIX

\* detect_known_legislation with the signals of MPV_1318 looked at first
detect_known_legislation_mpv_first(u, parts) ==
    IF \/ UrlHas(u, "mpv1318") \/ UrlHas(u, "mpv/mpv1318")
       \/ ContentHas(parts, <<"redata">>)
    THEN "MPV_1318"
    ELSE IF \/ UrlHas(u, "lcp214") \/ UrlHas(u, "lcp/lcp214") \/ UrlHas(u, "/lcp/214")
            \/ ContentHas(parts, <<"lei", "complementar", "no", "214">>)
            \/ /\ ContentHas(parts, <<"ibs">>) /\ ContentHas(parts, <<"cbs">>)
               /\ ContentHas(parts, <<"imposto", "seletivo">>)
            \/ /\ ContentHas(parts, <<"reforma", "tributaria">>) /\ ContentHas(parts, <<"ibs">>)
    THEN "LC_214"
    ELSE None

\* detect_known_legislation (the title is not looked at); the two spellings
\* of "no 214" differ in the ordinal sign only and are one phrase here
detect_known_legislation(u, parts) ==
    IF \/ UrlHas(u, "lcp214") \/ UrlHas(u, "lcp/lcp214") \/ UrlHas(u, "/lcp/214")
       \/ ContentHas(parts, <<"lei", "complementar", "no", "214">>)
       \/ /\ ContentHas(parts, <<"ibs">>) /\ ContentHas(parts, <<"cbs">>)
          /\ ContentHas(parts, <<"imposto", "seletivo">>)
       \/ /\ ContentHas(parts, <<"reforma", "tributaria">>) /\ ContentHas(parts, <<"ibs">>)
    THEN "LC_214"
    ELSE IF \/ UrlHas(u, "mpv1318") \/ UrlHas(u, "mpv/mpv1318")
            \/ ContentHas(parts, <<"redata">>)
    THEN "MPV_1318"
    ELSE None

SENTINEL == "Analise detalhada necessaria"

\* merge_with_extracted_data: (vigencias_merged, changes_merged)
merge_with_extracted_data(b, extracted_vigencias, extracted_changes, known_legislation_key) ==
    LET kb_vigencias == get_vigencias_for_legislation(b, known_legislation_key)
        kb_changes == get_system_changes_for_legislation(b, known_legislation_key)
        has_valid_changes ==
            /\ extracted_changes # << >>
            /\ Len(extracted_changes) > 0
            /\ extracted_changes[1].tributo # SENTINEL
    IN  [vigencias |-> IF extracted_vigencias = << >> \/ Len(extracted_vigencias) < 3
                       THEN kb_vigencias ELSE extracted_vigencias,
         changes |-> IF ~has_valid_changes THEN kb_changes ELSE extracted_changes]

(***************************************************************************)
(* date_extraction_agent.py                                                *)
(***************************************************************************)
\* text[:n]: the words that lie whole within the first n characters
Truncate(t, n) == SubSeq(t, 1, Cardinality({ i \in 1..Len(t) : EndOf(t, i) <= n }))

RECURSIVE Flat(_)
\* the words of the parts put together with blank space between them
Flat(parts) == IF parts = << >> THEN << >> ELSE Head(parts) \o Flat(Tail(parts))

CONSOLIDATE_DOCS == 2
CONSOLIDATE_CHARS == 5000

\* DateExtractionAgent._consolidate_content, as the parts that are joined
consolidate_content(results) ==
    LET first == SubSeq(results, 1, Min(CONSOLIDATE_DOCS, Len(results)))
        with == SelectSeq(first, LAMBDA r : r.content # << >>)
    IN  [i \in 1..Len(with) |-> Truncate(with[i].content, CONSOLIDATE_CHARS)]

RECURSIVE DedupeData(_, _)
\* [v for v in vigencias if v['data'] not in seen and not seen.add(v['data'])]
DedupeData(vigs, seen) ==
    IF vigs = << >> THEN << >>
    ELSE IF Head(vigs).data \in seen THEN DedupeData(Tail(vigs), seen)
    ELSE <<Head(vigs)>> \o DedupeData(Tail(vigs), seen \cup { Head(vigs).data })

REGEX_LIMIT == 4

\* the matches of one pattern of _extract_regex_fallback: word, then a date or a year
RegexMatches(lt, word, data_words, contexto, tipo, year) ==
    LET hit(i) == /\ i < Len(lt) /\ lt[i] = word /\ lt[i + 1] \in data_words
                  /\ ~(YearOf(lt[i + 1]) # 0 /\ YearOf(lt[i + 1]) < year)
        found == [i \in 1..Len(lt) |->
                     IF hit(i) THEN << Vig(lt[i + 1], Ctx(contexto), tipo, 0) >> ELSE << >>]
    IN  Flat(found)

\* DateExtractionAgent._extract_regex_fallback ("ate <date>", "em <year>")
extract_regex_fallback(content, year) ==
    LET lt == LowerText(content)
        all == RegexMatches(lt, "ate", { w \in Words : WordDate(w) # None },
                            "Prazo ate", "prazo_aquisicao", year)
               \o RegexMatches(lt, "em", { "2025", "2026" },
                               "Em {}", "inicio_vigencia", year)
        distinct == DedupeData(all, { })
    IN  SubSeq(distinct, 1, Min(REGEX_LIMIT, Len(distinct)))

KB_THRESHOLD == 3
REGEX_THRESHOLD == 2
DATES_LIMIT == 8
CONTENT_CHARS == 8000
RAW_CHARS == 4000

\* DateExtract with the knowledge-base lists taken also for KB_THRESHOLD entries
DateExtractInclusive(b, results, raw, llm, year) ==
    LET parts == consolidate_content(results)
        key == IF results # << >>
               THEN detect_known_legislation(results[1].url, parts) ELSE None
        combined == Truncate(Flat(parts), CONTENT_CHARS) \o Truncate(raw, RAW_CHARS)
        kb_vigencias == get_vigencias_for_legislation(b, key)
        v1 == IF key # None /\ Len(llm) <= KB_THRESHOLD /\ kb_vigencias # << >>
              THEN kb_vigencias ELSE llm
        v2 == IF Len(v1) < REGEX_THRESHOLD
              THEN DedupeData(v1 \o extract_regex_fallback(combined, year), { })
              ELSE v1
    IN  [vigencias |-> SubSeq(v2, 1, Min(DATES_LIMIT, Len(v2))),
         known_law_key |-> key]

\* DateExtractionAgent.extract; llm is what _extract_via_llm(_reforma) returned
DateExtract(b, results, raw, llm, year) ==
    LET parts == consolidate_content(results)
        key == IF results # << >>
               THEN detect_known_legislation(results[1].url, parts) ELSE None
        combined == Truncate(Flat(parts), CONTENT_CHARS) \o Truncate(raw, RAW_CHARS)
        kb_vigencias == get_vigencias_for_legislation(b, key)
        v1 == IF key # None /\ Len(llm) < KB_THRESHOLD /\ kb_vigencias # << >>
              THEN kb_vigencias ELSE llm
        v2 == IF Len(v1) < REGEX_THRESHOLD
              THEN DedupeData(v1 \o extract_regex_fallback(combined, year), { })
              ELSE v1
    IN  [vigencias |-> SubSeq(v2, 1, Min(DATES_LIMIT, Len(v2))),
         known_law_key |-> key]

(***************************************************************************)
(* legal_analysis_agent.py: QuantificationAgent, StructureValidationAgent  *)
(***************************************************************************)
\* the words of "\n\n".join(parts), each with the part it is in and its offsets
Joined(parts) ==
    Flat([d \in 1..Len(parts) |->
             [i \in 1..Len(parts[d]) |->
                 [w |-> Lower(parts[d][i]), d |-> d,
                  s |-> PartStart(parts, d) + StartOf(parts[d], i),
                  e |-> PartStart(parts, d) + EndOf(parts[d], i)]]])

IsPercent(w) == w = "8%"

PERCENT_CONTEXT == 100
PERCENT_LIMIT == 20

\* the entry built for a match that starts at word i and ends at word j of jw
PercentEntry(jw, i, j) ==
    LET total == IF jw = << >> THEN 0 ELSE jw[Len(jw)].e
        lo == Max(0, jw[i].s - PERCENT_CONTEXT)
        hi == Min(total, jw[j].e + PERCENT_CONTEXT)
        inside == { jw[k].w : k \in { k \in 1..Len(jw) : jw[k].s >= lo /\ jw[k].e <= hi } }
    IN  [valor |-> 8, lo |-> lo, hi |-> hi,
         tipo |-> IF "reducao" \in inside THEN "reducao"
                  ELSE IF "aliquota" \in inside THEN "aliquota"
                  ELSE IF inside \cap { "pis", "cofins" } # { } THEN "tributo"
                  ELSE "geral"]

RECURSIVE LazyMatches(_, _, _)
\* re.finditer(word + r'.*?(\d+(?:,\d+)?)\s*%'): from a word to the next percentage
\* of the same part, matches not overlapping
LazyMatches(jw, word, from) ==
    LET starts == { i \in from..Len(jw) : jw[i].w = word /\
                      \E j \in (i + 1)..Len(jw) : IsPercent(jw[j].w) /\ jw[j].d = jw[i].d }
    IN  IF starts = { } THEN << >>
        ELSE LET i == CHOOSE x \in starts : \A y \in starts : x <= y
                 j == CHOOSE x \in (i + 1)..Len(jw) :
                          /\ IsPercent(jw[x].w)
                          /\ \A y \in (i + 1)..(x - 1) : ~IsPercent(jw[y].w)
             IN  << PercentEntry(jw, i, j) >> \o LazyMatches(jw, word, j + 1)

RECURSIVE DedupePercent(_, _)
\* one entry for each (valor, tipo, contexto[:50])
DedupePercent(ps, seen) ==
    IF ps = << >> THEN << >>
    ELSE LET k == << Head(ps).valor, Head(ps).tipo, Head(ps).lo >>
         IN  IF k \in seen THEN DedupePercent(Tail(ps), seen)
             ELSE << Head(ps) >> \o DedupePercent(Tail(ps), seen \cup { k })

\* QuantificationAgent._extract_percentages over QuantificationAgent._consolidate_content
extract_percentages(results) ==
    LET with == SelectSeq(results, LAMBDA r : r.content # << >>)
        jw == Joined([i \in 1..Len(with) |-> with[i].content])
        plain == Flat([i \in 1..Len(jw) |->
                          IF IsPercent(jw[i].w) THEN << PercentEntry(jw, i, i) >> ELSE << >>])
        all == plain \o LazyMatches(jw, "aliquota", 1) \o LazyMatches(jw, "reducao", 1)
        unique == DedupePercent(all, { })
    IN  SubSeq(unique, 1, Min(PERCENT_LIMIT, Len(unique)))

\* StructureValidationAgent._calculate_completeness, in thousandths summed over the
\* three parts (the score is this sum divided by 3000)
FULL == 1000
PARTIAL == 300
calculate_completeness(raw, vigs, percs) ==
    (IF raw # << >> THEN Min(FULL, TextLen(raw)) ELSE 0)
    + (IF vigs # << >> THEN FULL ELSE PARTIAL)
    + (IF percs # << >> THEN FULL ELSE PARTIAL)

\* 0.70 of the full score
THRESHOLD == 2100

\* the comparison with the threshold itself counted as below it
NeedsEnhancementInclusive(score) == score <= THRESHOLD

\* StructureValidationAgent.process: "needs_enhancement": score < 0.70
NeedsEnhancement(score) == score < THRESHOLD

(***************************************************************************)
(* system_changes_agent.py                                                 *)
(***************************************************************************)
\* (?!\s*[,\.]?\s*(?:iii|iv|v|do|da|de)\b) after the word at position i
SourceLookaheadOk(lt, i) ==
    LET stop == { "iii", "iv", "v", "do", "da", "de" }
        punct == { ",", "." }
        n1 == IF i + 1 <= Len(lt) THEN lt[i + 1] ELSE None
        n2 == IF i + 2 <= Len(lt) THEN lt[i + 2] ELSE None
    IN  /\ n1 \notin stop
        /\ ~(n1 \in punct /\ n2 \in stop)

\* validation_patterns.get(tributo, [rf'\b{tributo.lower()}\b']) of
\* _validate_tributo_in_source, as phrases
validation_patterns(tributo) ==
    CASE tributo = "II" -> { <<"ii">>, <<"imposto", "de", "importacao">> }
      [] tributo = "PIS" -> { <<"pis">> }
      [] tributo = "COFINS" -> { <<"cofins">> }
      [] tributo = "IBS" -> { <<"ibs">> }
      [] tributo = "CBS" -> { <<"cbs">> }
      [] tributo = "IS" -> { <<"imposto", "seletivo">> }
      [] OTHER -> { << Lower(tributo) >> }

\* SystemChangesAgent._validate_tributo_in_source
validate_tributo_in_source(tributo, original_text_lower) ==
    \E ws \in validation_patterns(tributo) : \E i \in 1..Len(original_text_lower) :
        /\ PhraseAt(original_text_lower, i, ws)
        /\ (tributo = "II" /\ ws = <<"ii">>) => SourceLookaheadOk(original_text_lower, i)

NEW_TAXES == { "IBS", "CBS", "IS" }

\* tributos_conhecidos of _extract_aliquota_changes_improved
tributos_conhecidos ==
    { "PIS", "COFINS", "IPI", "II", "ICMS", "ISS", "IRPJ", "CSLL", "PIS/COFINS",
      "PIS-Importacao", "COFINS-Importacao", "IBS", "CBS", "IS", "IVA" }

\* the record _extract_aliquota_changes_improved builds for a tax it reads in the
\* analysis, or no record; c.tipo is the kind of change it recognises in the words
\* of the analysis ("" when none) and c.tag what those words say about imports
ExtractOne(c, original_text_lower) ==
    LET tipo == IF c.tipo = "" /\ c.tributo \in NEW_TAXES THEN "NOVO TRIBUTO" ELSE c.tipo
    IN  IF original_text_lower # << >> /\ ~validate_tributo_in_source(c.tributo, original_text_lower)
        THEN << >>
        ELSE IF tipo = "" THEN << >>
        ELSE << Aliq(c.tributo, tipo, << c.tributo, tipo >>, << "extracted", c.tag >>, 0) >>

SentinelList == << Aliq(SENTINEL, "Verificar legislacao", << "sentinel" >>, << >>, 0) >>

\* SystemChangesAgent._extract_aliquota_changes_improved
extract_aliquota_changes_improved(cands, original_text) ==
    LET changes == Flat([i \in 1..Len(cands) |-> ExtractOne(cands[i], LowerText(original_text))])
    IN  IF changes # << >> THEN changes ELSE SentinelList

II_RENAMED == "II (Imposto de Importacao)"

\* the test of _post_process_tributos on a record named II: an import marker and
\* no marker of an item of a list in descricao_completa, condicoes, situacao_nova
ImportContext(aliq) == Len(aliq.situacao_nova) = 2 /\ aliq.situacao_nova[2] = "import"

\* SystemChangesAgent._post_process_tributos on changes_result["aliquotas"]
post_process_tributos(aliqs) ==
    Flat([i \in 1..Len(aliqs) |->
             IF aliqs[i].tributo = "II"
             THEN IF ImportContext(aliqs[i])
                  THEN << [aliqs[i] EXCEPT !.tributo = II_RENAMED] >>
                  ELSE << >>
             ELSE << aliqs[i] >>])

\* identify_changes with the knowledge-base list substituted even when it is empty
identify_changes_substituting(b, raw, cands, key_in) ==
    LET key == IF key_in = None THEN detect_known_legislation("", << raw >>) ELSE key_in
        extracted == extract_aliquota_changes_improved(cands, raw)
        has_valid_aliquotas == extracted # << >> /\ extracted[1].tributo # SENTINEL
        kb_changes == get_system_changes_for_legislation(b, key)
        merged_list == IF key # None /\ ~has_valid_aliquotas
                       THEN kb_changes ELSE extracted
    IN  [aliquotas |-> post_process_tributos(merged_list), known_law_key |-> key]

\* SystemChangesAgent.identify_changes: the aliquotas and the key it reports
identify_changes(b, raw, cands, key_in) ==
    LET key == IF key_in = None THEN detect_known_legislation("", << raw >>) ELSE key_in
        extracted == extract_aliquota_changes_improved(cands, raw)
        has_valid_aliquotas == extracted # << >> /\ extracted[1].tributo # SENTINEL
        kb_changes == get_system_changes_for_legislation(b, key)
        merged_list == IF key # None /\ ~has_valid_aliquotas /\ kb_changes # << >>
                       THEN kb_changes ELSE extracted
    IN  [aliquotas |-> post_process_tributos(merged_list), known_law_key |-> key]

(***************************************************************************)
(* review_agent.py                                                         *)
(***************************************************************************)
RECURSIVE ReviewChanges(_, _)
\* the loop of ReviewAgent._review_system_changes
ReviewChanges(aliqs, seen) ==
    IF aliqs = << >> THEN << >>
    ELSE LET a == Head(aliqs)
         IN  IF a.tributo \in seen \/ a.tipo_mudanca \in { "", "Analise manual necessaria" }
             THEN ReviewChanges(Tail(aliqs), seen)
             ELSE << a >> \o ReviewChanges(Tail(aliqs), seen \cup { a.tributo })

\* ReviewAgent._review_system_changes
review_system_changes(aliqs) == ReviewChanges(aliqs, { })

max_dates_allowed == 6

\* any(marker in contexto_lower for marker in legal_reference_markers)
IsLegalReference(text) ==
    text \in { "Publicacao e inicio da vigencia da Lei Complementar no 214",
               "CBS entra em vigor com aliquota cheia; IS (Imposto Seletivo)",
               "conforme a Lei" }

\* a historical pattern in the contexto and no marker of current legislation
IsHistorical(text) == text = "Lei 9.430 de 1996"

\* ReviewAgent._infer_vigencia_type for a date that is not a duration
infer_vigencia_type(text) ==
    CASE text \in { "Publicacao e inicio da vigencia da Lei Complementar no 214",
                    "Inicio do periodo de teste",
                    "CBS entra em vigor com aliquota cheia; IS (Imposto Seletivo)" } -> "inicio_vigencia"
      [] text \in { "Prazo ate", "prazo para habilitacao" } -> "prazo_aquisicao"
      [] text = "Periodo de transicao gradual" -> "duracao_beneficio"
      [] OTHER -> "prazo_final"

RECURSIVE ReviewDates(_, _, _)
\* the loop of ReviewAgent._review_dates; n entries are already in cleaned_vigencias
ReviewDates(vigs, n, min_year) ==
    IF vigs = << >> THEN << >>
    ELSE LET v == Head(vigs)
             rest == Tail(vigs)
         IN  IF IsDuration(v.data) \/ v.tipo \in { "duracao_beneficio", "prazo_permanencia" }
             THEN << [v EXCEPT !.tipo = IF v.tipo = "" THEN "duracao_beneficio" ELSE v.tipo] >>
                  \o ReviewDates(rest, n + 1, min_year)
             ELSE IF YearOf(v.data) = 0 THEN ReviewDates(rest, n, min_year)
             ELSE IF YearOf(v.data) < min_year
             THEN IF IsLegalReference(v.contexto.text)
                  THEN << [v EXCEPT !.contexto.refs = v.contexto.refs + 1] >>
                       \o (IF n + 1 >= max_dates_allowed THEN << >>
                           ELSE ReviewDates(rest, n + 1, min_year))
                  ELSE ReviewDates(rest, n, min_year)
             ELSE IF IsHistorical(v.contexto.text) THEN ReviewDates(rest, n, min_year)
             ELSE << [v EXCEPT !.tipo = IF v.tipo = "" THEN infer_vigencia_type(v.contexto.text)
                                       ELSE v.tipo] >>
                  \o (IF n + 1 >= max_dates_allowed THEN << >>
                      ELSE ReviewDates(rest, n + 1, min_year))

\* ReviewAgent._review_dates
review_dates(vigs, min_year) == ReviewDates(vigs, 0, min_year)

(***************************************************************************)
(* web_search_agent.py                                                     *)
(***************************************************************************)
U_LC == "https://planalto/lcp/lcp214.htm"
U_X == "https://example/x"
URLS == { U_LC, U_X }

\* what a page can hold when its download succeeds
Docs(u) ==
    IF u = U_LC THEN { <<"IBS", "CBS", "imposto", "seletivo", "2025", "reducao">>,
                       <<"fill", "8%">> }
    ELSE { <<"redata", "PIS", "suspensao", "8%">>, <<"PIS", "isento", "ate", "31/12/2026">> }

\* fetch_url_content for every page: the content, << >> when the download fails
FetchOutcomes == { f \in [URLS -> UNION { Docs(u) : u \in URLS } \cup { << >> }] :
                     \A u \in URLS : f[u] \in Docs(u) \cup { << >> } }

Res(u, content) == [url |-> u, content |-> content]

\* the downloads of the pages us, in order
Downloads(us, f) == [i \in 1..Len(us) |-> Res(us[i], f[us[i]])]

\* fetch_multiple_urls keeping an entry for every page, downloaded or not
fetch_multiple_urls_unfiltered(downloads) == downloads

\* WebSearchAgent.fetch_multiple_urls, given what the downloads gave
fetch_multiple_urls(downloads) == SelectSeq(downloads, LAMBDA r : r.content # << >>)

Q_PLAIN == "reforma tributaria"
Q_URLS == "veja https://planalto/lcp/lcp214.htm e https://example/x"

\* WebSearchAgent._extract_urls_from_text
extract_urls_from_text(q) == IF q = Q_URLS THEN URLS ELSE { }

\* list(set(urls)): the URLs in some order
Orderings(S) == { o \in [1..Cardinality(S) -> S] : \A u \in S : \E i \in DOMAIN o : o[i] = u }

\* the lists of hits DDGS().text can return (<< >> also when it raises)
DDGSHits == { << >>, << U_X >>, << U_X, U_LC >> }

\* WebSearchAgent.search: the downloads it can make and the list it returns for them
search(q) ==
    IF extract_urls_from_text(q) # { }
    THEN { [log |-> Downloads(o, f), results |-> fetch_multiple_urls(Downloads(o, f))] :
               o \in Orderings(extract_urls_from_text(q)), f \in FetchOutcomes }
    ELSE { [log |-> Downloads(hits, f), results |-> Downloads(hits, f)] :
               hits \in DDGSHits, f \in FetchOutcomes }

\* WebSearchAgent.identify_legislation_type
identify_legislation_type(content, u) ==
    IF content = << >> THEN "default"
    ELSE IF \E i \in 1..Len(content) : Lower(content[i]) = "redata" THEN "regime_tributario"
    ELSE "default"

(***************************************************************************)
(* workflow.py: LegislacaoWorkflow                                         *)
(***************************************************************************)
Falsy(x) == x \in { None, "" }

Queries == { None, "", Q_PLAIN, Q_URLS }
UrlArgs == { None, U_X }
UrlLists == { << >>, << U_LC >>, << U_X >>, << U_LC, U_X >> }

\* the calls of run() tried: every query with every list of URLs; the empty
\* string, which run() treats as it treats None, with no list; the single URL
\* alone and next to a list
RunInputs ==
    { i \in Queries \X UrlArgs \X UrlLists :
        /\ i[1] = "" => i[3] = << >>
        /\ i[2] # None => i[3] \in { << >>, << U_LC >> } }

\* what the extraction call of RawExtractionAgent can return
RawTexts == { << >>, <<"fill", "II">>, <<"fill", "PIS">>, <<"pad", "pad", "pad">> }

\* the entries the date extraction call can return, in the order it returns them
MasterVigs ==
    << Vig("17/09/2025", Ctx("conforme a Lei"), "inicio_vigencia", 0),
       Vig("5 anos", Ctx("duracao do beneficio"), "duracao_beneficio", 0),
       Vig("31/12/2026", Ctx("prazo para habilitacao"), "", 0),
       Vig("01/01/2020", Ctx("Lei 9.430 de 1996"), "prazo_final", 0),
       Vig("2026", Ctx("Inicio do periodo de teste"), "inicio_vigencia", 0),
       Vig("2027", Ctx("aliquota cheia"), "inicio_vigencia", 0),
       Vig("31/12/2032", Ctx("Ultimo ano de coexistencia"), "prazo_final", 0),
       Vig("01/01/2033", Ctx("Extincao total"), "prazo_final", 0),
       Vig("2029-2032", Ctx("Periodo de transicao gradual"), "prazo_transicao", 0) >>

LLMVigencias(n) == [k \in 1..n |-> MasterVigs[((k - 1) % Len(MasterVigs)) + 1]]

\* lengths of the date lists tried in a run
DateChoices == { 0, 2, 3, MaxVigs }

Cand(tributo, tipo, tag) == [tributo |-> tributo, tipo |-> tipo, tag |-> tag]

\* what the analysis of the changes can name: taxes, kinds of change, import context
CandLists ==
    { << >>,
      << Cand("PIS", "ISENCAO", "plain") >>,
      << Cand("II", "SUSPENSAO", "import"), Cand("PIS", "", "plain") >>,
      << Cand("II", "REDUCAO", "plain") >>,
      << Cand("IBS", "", "plain"), Cand("COFINS", "ALIQUOTA 0%", "plain"),
         Cand("CBS", "", "plain"), Cand("IS", "CREDITO", "plain") >> }

\* the entries of "validacoes" the escalation call can answer with: a correction
\* with its evidence, a correction with no evidence, an entry that asks for none
ValidacaoPool ==
    { [tributo |-> "PIS", tipo_correto |-> "SUSPENSAO", correcao_necessaria |-> TRUE,
       evidencia |-> "fica suspensa a exigencia"],
      [tributo |-> "II", tipo_correto |-> "REDUCAO", correcao_necessaria |-> TRUE,
       evidencia |-> ""],
      [tributo |-> "PIS", tipo_correto |-> "ISENCAO", correcao_necessaria |-> FALSE,
       evidencia |-> "isento"] }

\* an answer that corrects the three records of the LC 214 knowledge base
KBAnswer ==
    [i \in 1..3 |->
        [tributo |-> << "IBS", "CBS", "IS" >>[i], tipo_correto |-> "REDUCAO",
         correcao_necessaria |-> TRUE, evidencia |-> "reducao"]]

Answers == UNION { [1..n -> ValidacaoPool] : n \in 0..MaxCorr } \cup { KBAnswer }

\* the filter of _validate_via_llm on the entries of the answer
FilterValidacoes(validacoes) ==
    LET kept == SelectSeq(validacoes,
                          LAMBDA v : v.correcao_necessaria /\ v.tipo_correto # "")
    IN  [i \in 1..Len(kept) |->
            [tributo |-> kept[i].tributo, tipo_correto |-> kept[i].tipo_correto]]

\* what _validate_via_llm can return
Corrections == { FilterValidacoes(vs) : vs \in Answers }

CorrectionPool == UNION { { cs[i] : i \in 1..Len(cs) } : cs \in Corrections }

\* the entries of a knowledge-base list as the records rs now hold them (the
\* records of rs with kb = k are the k-th dictionary of the list)
WriteBack(list, rs) ==
    [k \in 1..Len(list) |->
        IF \E i \in 1..Len(rs) : rs[i].kb = k
        THEN rs[CHOOSE i \in 1..Len(rs) : rs[i].kb = k]
        ELSE list[k]]

Terminal == { "idle", "done", "crashed", "rejected" }

\* the key of the state taken from a stage's result whatever the state holds
update_known_law_key_overwriting(current, detected) ==
    IF detected # None THEN detected ELSE current

\* "if result.get("known_law_key") and not state.get("known_law_key")" of
\* extract_dates and analyze_system_changes
update_known_law_key(current, detected) ==
    IF detected # None /\ current = None THEN detected ELSE current

\* the state dictionary run() builds, apart from "query" and "urls"
FreshState ==
    /\ web_results' = << >>
    /\ legislation_type' = "default"
    /\ raw_text' = << >>
    /\ vigencias' = << >>
    /\ date_key' = None
    /\ count' = 0
    /\ percentuais' = << >>
    /\ completeness' = 0
    /\ needs_enhancement' = FALSE
    /\ enhanced' = FALSE
    /\ impact_done' = FALSE
    /\ aliquotas' = << >>
    /\ known_law_key' = None
    /\ validation_status' = << >>
    /\ dell_done' = FALSE
    /\ final_analysis' = << >>
    /\ llm_calls' = 0
    /\ given' = << >>
    /\ fetch_log' = << >>
    /\ trace' = << >>

\* url_list that looks at the list only
url_list_ignoring_url(u, us) == us

\* url_list = urls or ([url] if url else [])
url_list(u, us) == IF us # << >> THEN us ELSE IF ~Falsy(u) THEN << u >> ELSE << >>

\* LegislacaoWorkflow.run up to the call of the compiled graph
Run(q, u, us) ==
    /\ mode = "run"
    /\ pc \in Terminal
    /\ runs < MaxRuns
    /\ runs' = runs + 1
    /\ query' = q
    /\ url' = u
    /\ urls' = url_list(u, us)
    /\ FreshState
    /\ IF Falsy(q) /\ url_list(u, us) = << >>
       THEN pc' = "rejected" /\ failure' = "ValueError"
       ELSE pc' = "input" /\ failure' = "none"
    /\ UNCHANGED << mode, merged, kb, current_year >>

\* a node of the graph starts: it is the next one and the run has not ended
Enter(stage) ==
    /\ pc = stage
    /\ trace' = Append(trace, stage)

\* the exception of a text-generation call leaves the node, the graph and run()
Raise(stage) ==
    /\ pc' = "crashed"
    /\ failure' = stage

\* LegislacaoWorkflow.process_input
process_input ==
    /\ Enter("input")
    /\ known_law_key' = None
    /\ validation_status' = << >>
    /\ pc' = "search"
    /\ UNCHANGED << mode, runs, query, url, urls, fetch_log, web_results, legislation_type, raw_text,
                    vigencias, date_key, count, percentuais, completeness, needs_enhancement,
                    enhanced, impact_done, aliquotas, dell_done, final_analysis, failure,
                    llm_calls, given, merged, kb, current_year >>

\* state["query"]: the query given, or the one run() writes from the URLs
state_query == IF Falsy(query) THEN "Analisar legislacao" ELSE query

\* LegislacaoWorkflow.search_web
search_web ==
    /\ Enter("search")
    /\ \E r \in (IF urls # << >>
                 THEN { [log |-> Downloads(urls, f), results |-> fetch_multiple_urls(Downloads(urls, f))] :
                          f \in FetchOutcomes }
                 ELSE search(state_query)) :
           /\ web_results' = r.results
           /\ fetch_log' = r.log
    /\ pc' = "detect_type"
    /\ UNCHANGED << mode, runs, query, url, urls, legislation_type, raw_text, vigencias,
                    date_key, count, percentuais, completeness, needs_enhancement, enhanced,
                    impact_done, aliquotas, known_law_key, validation_status, dell_done,
                    final_analysis, failure, llm_calls, given, merged, kb, current_year >>

\* LegislacaoWorkflow.detect_type
detect_type ==
    /\ Enter("detect_type")
    /\ IF web_results # << >>
       THEN LET first == web_results[1]
                known_key == detect_known_legislation(first.url, << first.content >>)
            IN  /\ legislation_type' = identify_legislation_type(first.content, first.url)
                /\ known_law_key' = IF known_key # None THEN known_key ELSE known_law_key
       ELSE /\ legislation_type' = "default"
            /\ UNCHANGED known_law_key
    /\ pc' = "raw_extract"
    /\ UNCHANGED << mode, runs, query, url, urls, fetch_log, web_results, raw_text, vigencias,
                    date_key, count, percentuais, completeness, needs_enhancement, enhanced,
                    impact_done, aliquotas, validation_status, dell_done,
                    final_analysis, failure, llm_calls, given, merged, kb, current_year >>

\* LegislacaoWorkflow.extract_raw: RawExtractionAgent.extract does not guard its call
extract_raw ==
    /\ Enter("raw_extract")
    /\ \/ \E r \in RawTexts : raw_text' = r /\ pc' = "extract_dates" /\ UNCHANGED failure
       \/ Raise("raw_extract") /\ UNCHANGED raw_text
    /\ UNCHANGED << mode, runs, query, url, urls, fetch_log, web_results, legislation_type, vigencias,
                    date_key, count, percentuais, completeness, needs_enhancement, enhanced,
                    impact_done, aliquotas, known_law_key, validation_status, dell_done,
                    final_analysis, llm_calls, given, merged, kb, current_year >>

\* LegislacaoWorkflow.extract_dates
extract_dates ==
    /\ Enter("extract_dates")
    /\ \E n \in DateChoices :
           LET dates == DateExtract(kb, web_results, raw_text, LLMVigencias(n), current_year)
           IN  /\ vigencias' = dates.vigencias
               /\ given' = LLMVigencias(n)
               /\ date_key' = dates.known_law_key
               /\ count' = Len(dates.vigencias)
               /\ known_law_key' = update_known_law_key(known_law_key, dates.known_law_key)
    /\ pc' = "extract_numbers"
    /\ UNCHANGED << mode, runs, query, url, urls, fetch_log, web_results, legislation_type,
                    raw_text, percentuais, completeness, needs_enhancement, enhanced,
                    impact_done, aliquotas, validation_status, dell_done, final_analysis,
                    failure, llm_calls, merged, kb, current_year >>

\* LegislacaoWorkflow.extract_numbers (the call of QuantificationAgent is guarded)
extract_numbers ==
    /\ Enter("extract_numbers")
    /\ percentuais' = extract_percentages(web_results)
    /\ pc' = "validate"
    /\ UNCHANGED << mode, runs, query, url, urls, fetch_log, web_results, legislation_type, raw_text,
                    vigencias, date_key, count, completeness, needs_enhancement, enhanced,
                    impact_done, aliquotas, known_law_key, validation_status, dell_done,
                    final_analysis, failure, llm_calls, given, merged, kb, current_year >>

\* LegislacaoWorkflow.validate and the conditional edge that leaves it
validate_structure ==
    /\ Enter("validate")
    /\ LET score == calculate_completeness(raw_text, vigencias, percentuais)
       IN  /\ completeness' = score
           /\ needs_enhancement' = NeedsEnhancement(score)
           /\ pc' = IF NeedsEnhancement(score) THEN "enhance" ELSE "analyze_impact"
    /\ UNCHANGED << mode, runs, query, url, urls, fetch_log, web_results, legislation_type, raw_text,
                    vigencias, date_key, count, percentuais, enhanced, impact_done, aliquotas,
                    known_law_key, validation_status, dell_done, final_analysis, failure,
                    llm_calls, given, merged, kb, current_year >>

\* enhance handing over to the stage after the impact analysis
enhance_skipping_impact ==
    /\ Enter("enhance")
    /\ enhanced' = TRUE
    /\ pc' = "system_changes"
    /\ UNCHANGED << mode, runs, query, url, urls, fetch_log, web_results, legislation_type, raw_text,
                    vigencias, date_key, count, percentuais, completeness, needs_enhancement,
                    impact_done, aliquotas, known_law_key, validation_status, dell_done,
                    final_analysis, failure, llm_calls, given, merged, kb, current_year >>

\* LegislacaoWorkflow.enhance
enhance ==
    /\ Enter("enhance")
    /\ enhanced' = TRUE
    /\ pc' = "analyze_impact"
    /\ UNCHANGED << mode, runs, query, url, urls, fetch_log, web_results, legislation_type, raw_text,
                    vigencias, date_key, count, percentuais, completeness, needs_enhancement,
                    impact_done, aliquotas, known_law_key, validation_status, dell_done,
                    final_analysis, failure, llm_calls, given, merged, kb, current_year >>

\* LegislacaoWorkflow.analyze_impact: extract_impact_analysis does not guard its call
analyze_impact ==
    /\ Enter("analyze_impact")
    /\ \/ impact_done' = TRUE /\ pc' = "system_changes" /\ UNCHANGED failure
       \/ Raise("analyze_impact") /\ UNCHANGED impact_done
    /\ UNCHANGED << mode, runs, query, url, urls, fetch_log, web_results, legislation_type, raw_text,
                    vigencias, date_key, count, percentuais, completeness, needs_enhancement,
                    enhanced, aliquotas, known_law_key, validation_status, dell_done,
                    final_analysis, llm_calls, given, merged, kb, current_year >>

\* LegislacaoWorkflow.analyze_system_changes
analyze_system_changes ==
    /\ Enter("system_changes")
    /\ \E cands \in CandLists :
           LET changes == identify_changes(kb, raw_text, cands, known_law_key)
           IN  /\ aliquotas' = changes.aliquotas
               /\ given' = cands
               /\ known_law_key' = update_known_law_key(known_law_key, changes.known_law_key)
               /\ kb' = [kb EXCEPT !.system_changes = WriteBack(@, changes.aliquotas)]
    /\ pc' = "validation_check"
    /\ UNCHANGED << mode, runs, query, url, urls, fetch_log, web_results, legislation_type,
                    raw_text, vigencias, date_key, count, percentuais, completeness,
                    needs_enhancement, enhanced, impact_done, validation_status, dell_done,
                    final_analysis, failure, llm_calls, merged, current_year >>

\* validate for every answer the escalation call can return: the loop over the
\* records runs once, whatever the answer is
validate_outcomes(original_text, aliqs, vigs) ==
    IF original_text = << >>
    THEN { ValidateOn(original_text, aliqs, vigs, << >>) }
    ELSE UNION { { ValidateAfterLoop(det, vigs, cs, LowerText(original_text)) :
                       cs \in Corrections } :
                 det \in { DeterministicStep(aliqs, LowerText(original_text)) } }

\* LegislacaoWorkflow.run_validation: ValidationAgent.validate on the state
run_validation ==
    /\ Enter("validation_check")
    /\ \E r \in validate_outcomes(get_original_text(raw_text, web_results),
                                   aliquotas, vigencias) :
           /\ aliquotas' = r.aliquotas
           /\ given' = aliquotas
           /\ vigencias' = r.vigencias
           /\ validation_status' = r.status
           /\ llm_calls' = llm_calls + (IF r.called THEN 1 ELSE 0)
           /\ kb' = [kb EXCEPT !.system_changes = WriteBack(@, r.aliquotas)]
    /\ pc' = "dell_relevance"
    /\ UNCHANGED << mode, runs, query, url, urls, fetch_log, web_results, legislation_type,
                    raw_text, date_key, count, percentuais, completeness, needs_enhancement,
                    enhanced, impact_done, known_law_key, dell_done, final_analysis,
                    failure, merged, current_year >>

\* LegislacaoWorkflow.dell_relevance_check: DellRelevanceAgent.analyze does not guard its call
dell_relevance_check ==
    /\ Enter("dell_relevance")
    /\ \/ dell_done' = TRUE /\ pc' = "review" /\ UNCHANGED failure
       \/ Raise("dell_relevance") /\ UNCHANGED dell_done
    /\ UNCHANGED << mode, runs, query, url, urls, fetch_log, web_results, legislation_type, raw_text,
                    vigencias, date_key, count, percentuais, completeness, needs_enhancement,
                    enhanced, impact_done, aliquotas, known_law_key, validation_status,
                    final_analysis, llm_calls, given, merged, kb, current_year >>

\* LegislacaoWorkflow.review_outputs: ReviewAgent.review on the state
review_outputs ==
    /\ Enter("review")
    /\ LET dates == review_dates(vigencias, current_year)
       IN  /\ vigencias' = dates
           \* "if not vigencias: return date_extraction" leaves the count as it is
           /\ count' = IF vigencias = << >> THEN count ELSE Len(dates)
           /\ aliquotas' = review_system_changes(aliquotas)
           /\ kb' = [kb EXCEPT !.vigencias = WriteBack(@, dates)]
    /\ pc' = "assemble"
    /\ UNCHANGED << mode, runs, query, url, urls, fetch_log, web_results, legislation_type,
                    raw_text, date_key, percentuais, completeness, needs_enhancement,
                    enhanced, impact_done, known_law_key, validation_status, dell_done,
                    final_analysis, failure, llm_calls, merged, current_year, given >>

\* the sections FinalAssemblyAgent.assemble writes from the state
Report == [header |-> state_query, aliquotas |-> aliquotas, vigencias |-> vigencias,
           known_law_key |-> known_law_key]

\* LegislacaoWorkflow.assemble, the end of the graph and the return of run()
assemble ==
    /\ Enter("assemble")
    /\ final_analysis' = << Report >>
    /\ pc' = "done"
    /\ UNCHANGED << mode, runs, query, url, urls, fetch_log, web_results, legislation_type, raw_text,
                    vigencias, date_key, count, percentuais, completeness, needs_enhancement,
                    enhanced, impact_done, aliquotas, known_law_key, validation_status,
                    dell_done, failure, llm_calls, given, merged, kb, current_year >>

Years == { 2026 }

Init ==
    /\ mode = "run"
    /\ runs = 0
    /\ pc = "idle"
    /\ trace = << >>
    /\ query = None
    /\ url = None
    /\ urls = << >>
    /\ web_results = << >>
    /\ legislation_type = "default"
    /\ raw_text = << >>
    /\ vigencias = << >>
    /\ date_key = None
    /\ count = Len(vigencias)
    /\ percentuais = << >>
    /\ completeness = 0
    /\ needs_enhancement = FALSE
    /\ enhanced = FALSE
    /\ impact_done = FALSE
    /\ aliquotas = << >>
    /\ known_law_key = None
    /\ validation_status = << >>
    /\ dell_done = FALSE
    /\ final_analysis = << >>
    /\ failure = "none"
    /\ llm_calls = 0
    /\ given = << >>
    /\ fetch_log = << >>
    /\ merged = << >>
    /\ kb = KNOWLEDGE_BASE
    /\ current_year \in Years

Next ==
    \/ \E i \in RunInputs : Run(i[1], i[2], i[3])
    \/ process_input
    \/ search_web
    \/ detect_type
    \/ extract_raw
    \/ extract_dates
    \/ extract_numbers
    \/ validate_structure
    \/ enhance
    \/ analyze_impact
    \/ analyze_system_changes
    \/ run_validation
    \/ dell_relevance_check
    \/ review_outputs
    \/ assemble

Spec == Init /\ [][Next]_vars


(***************************************************************************)
(* The validation engine on its own: ValidationAgent.validate applied to   *)
(* every text of at most MaxTextLen words over ValWords, and to the text   *)
(* of the standalone example, with every list of at most MaxAliq records.  *)
(***************************************************************************)
ValWords == { "PIS", "II", "suspensao", "isento", "pad" }

ExampleText ==
    << "fica", "suspensa", "a", "exigencia", "da", "Contribuicao", "para", "o", "PIS" >>

ValTexts == UNION { [1..n -> ValWords] : n \in 0..MaxTextLen } \cup { ExampleText }

ValRecords ==
    { Aliq("PIS", "ISENCAO", << "PIS", "ISENCAO" >>, << "llm" >>, 0),
      Aliq("II", "SUSPENSAO", << "II", "SUSPENSAO" >>, << "llm" >>, 0),
      Aliq("IBS", "NOVO TRIBUTO", << "IBS", "NOVO TRIBUTO" >>, << "llm" >>, 0) }

ValLists == UNION { [1..n -> ValRecords] : n \in 0..MaxAliq }

ValVigs == { << >>, LLMVigencias(3) }

\* "conforme incisos II, III, ...": II as an item of a list, no import context
EnumerationText == << "conforme", "incisos", "II", ",", "III" >>

\* further calls of validate: a text and the list of records validated against it
\* texts with one half, both halves or neither half of the composite type near PIS
CompositeTexts ==
    { << "PIS", "suspensao" >>, << "PIS", "aliquota", "zero" >>,
      << "PIS", "suspensao", "aliquota", "zero" >>, << "PIS", "isento" >>,
      << "PIS", "pad", "suspensao" >> }

ValCases ==
    { [text |-> EnumerationText,
       aliqs |-> << Aliq("II", "SUSPENSAO", << "II", "SUSPENSAO" >>, << "llm" >>, 0) >>] }
    \cup { [text |-> t, aliqs |-> << Aliq("PIS", Composite, << "PIS", Composite >>, << "llm" >>, 0) >>] :
               t \in CompositeTexts }

InitVal ==
    /\ mode = "validate"
    /\ runs = 0
    /\ pc = "validation_check"
    /\ trace = << >>
    /\ query = Q_PLAIN
    /\ url = None
    /\ urls = << >>
    /\ web_results = << >>
    /\ legislation_type = "default"
    /\ \/ raw_text \in ValTexts /\ aliquotas \in ValLists
       \/ \E c \in ValCases : raw_text = c.text /\ aliquotas = c.aliqs
    /\ vigencias \in ValVigs
    /\ date_key = None
    /\ count = Len(vigencias)
    /\ percentuais = << >>
    /\ completeness = 0
    /\ needs_enhancement = FALSE
    /\ enhanced = FALSE
    /\ impact_done = FALSE
    /\ known_law_key = None
    /\ validation_status = << >>
    /\ dell_done = FALSE
    /\ final_analysis = << >>
    /\ failure = "none"
    /\ llm_calls = 0
    /\ given = << >>
    /\ fetch_log = << >>
    /\ merged = << >>
    /\ kb = KNOWLEDGE_BASE
    /\ current_year \in Years

NextVal == run_validation

SpecVal == InitVal /\ [][NextVal]_vars


(***************************************************************************)
(* The merges with the knowledge base on their own: the date extraction    *)
(* and the identification of the changes started from every combination of *)
(* documents, extracted text and key, and merge_with_extracted_data (which *)
(* no stage calls) applied to extracted lists.                             *)
(***************************************************************************)
MergeDocs(u) ==
    IF u = U_LC THEN Docs(u) \cup { << >>, <<"redata", "imposto", "seletivo">> }
    ELSE Docs(u) \cup { << >>, <<"redata", "ate", "31/12/2026">>,
                        <<"redata", "imposto", "seletivo">>,
                        <<"imposto", "seletivo", "8%">>,
                        <<"reforma", "tributaria", "IBS", "redata">>,
                        <<"IBS", "CBS", "imposto", "seletivo">> }

MergeResults ==
    { << >> } \cup UNION { { << Res(u, d) >> : d \in MergeDocs(u) } : u \in URLS }

MergeRaws == RawTexts \cup { <<"IBS", "CBS", "imposto", "seletivo">>, <<"redata", "II">> }

\* the lists of changes handed to merge_with_extracted_data
ExtractedChanges ==
    { << >>, SentinelList,
      << Aliq("PIS", "ISENCAO", << "PIS", "ISENCAO" >>, << "extracted", "plain" >>, 0) >>,
      << Aliq("II", "REDUCAO", << "II", "REDUCAO" >>, << "extracted", "plain" >>, 0),
         Aliq("COFINS", "ALIQUOTA 0%", << "COFINS", "ALIQUOTA 0%" >>,
              << "extracted", "plain" >>, 0) >> }

\* a call of merge_with_extracted_data
merge_helper ==
    /\ mode = "merge"
    /\ pc = "merge"
    /\ \E n \in DateChoices, changes \in ExtractedChanges, key \in KnownKeys :
           /\ merged' = << merge_with_extracted_data(kb, LLMVigencias(n), changes, key) >>
           /\ given' = << [vigencias |-> LLMVigencias(n), changes |-> changes] >>
           /\ known_law_key' = key
    /\ pc' = "merged"
    /\ UNCHANGED << mode, runs, trace, query, url, urls, fetch_log, web_results,
                    legislation_type, raw_text, vigencias, date_key, count, percentuais,
                    completeness, needs_enhancement, enhanced, impact_done, aliquotas,
                    validation_status, dell_done, final_analysis, failure, llm_calls,
                    kb, current_year >>

InitMerge ==
    /\ mode = "merge"
    /\ runs = 0
    /\ pc \in { "extract_dates", "system_changes", "merge" }
    /\ trace = << >>
    /\ query = Q_PLAIN
    /\ url = None
    /\ urls = << >>
    /\ web_results \in MergeResults
    /\ legislation_type = "default"
    /\ raw_text \in MergeRaws
    /\ vigencias = << >>
    /\ date_key = None
    /\ count = Len(vigencias)
    /\ percentuais = << >>
    /\ completeness = 0
    /\ needs_enhancement = FALSE
    /\ enhanced = FALSE
    /\ impact_done = FALSE
    /\ aliquotas = << >>
    /\ known_law_key \in { None } \cup KnownKeys
    /\ validation_status = << >>
    /\ dell_done = FALSE
    /\ final_analysis = << >>
    /\ failure = "none"
    /\ llm_calls = 0
    /\ given = << >>
    /\ fetch_log = << >>
    /\ merged = << >>
    /\ kb = KNOWLEDGE_BASE
    /\ current_year \in Years

NextMerge ==
    \/ extract_dates
    \/ analyze_system_changes
    \/ merge_helper

SpecMerge == InitMerge /\ [][NextMerge]_vars

(***************************************************************************)
(* The review of the dates studied on its own: the validation, the         *)
(* relevance step and the review, over the lists the date extraction can   *)
(* hand on (at most DATES_LIMIT entries, calendar dates and durations).     *)
(***************************************************************************)
\* a calendar date of the current year and a duration, as the extraction call returns them
ReviewPool ==
    { Vig("31/12/2026", Ctx("prazo para habilitacao"), "prazo_aquisicao", 0),
      Vig("5 anos", Ctx("duracao do beneficio"), "duracao_beneficio", 0) }

\* date_extraction["vigencias"] = vigencias[:8]
ReviewLists == UNION { [1..n -> ReviewPool] : n \in 0..DATES_LIMIT }

\* no source text, a text without the date, a text with the date
ReviewTexts == { << >>, << "fill" >>, << "ate", "31/12/2026" >> }

InitReview ==
    /\ mode = "review"
    /\ runs = 0
    /\ pc = "validation_check"
    /\ trace = << >>
    /\ query = Q_PLAIN
    /\ url = None
    /\ urls = << >>
    /\ web_results = << >>
    /\ legislation_type = "default"
    /\ raw_text \in ReviewTexts
    /\ aliquotas = << >>
    /\ vigencias \in ReviewLists
    /\ date_key = None
    /\ count = Len(vigencias)
    /\ percentuais = << >>
    /\ completeness = 0
    /\ needs_enhancement = FALSE
    /\ enhanced = FALSE
    /\ impact_done = FALSE
    /\ known_law_key = None
    /\ validation_status = << >>
    /\ dell_done = FALSE
    /\ final_analysis = << >>
    /\ failure = "none"
    /\ llm_calls = 0
    /\ given = << >>
    /\ fetch_log = << >>
    /\ merged = << >>
    /\ kb = KNOWLEDGE_BASE
    /\ current_year \in Years

NextReview ==
    \/ run_validation
    \/ dell_relevance_check
    \/ review_outputs

SpecReview == InitReview /\ [][NextReview]_vars


(***************************************************************************)
(* Properties                                                              *)
(***************************************************************************)
Range(sq) == { sq[i] : i \in 1..Len(sq) }

IsPrefix(a, b) == Len(a) <= Len(b) /\ a = SubSeq(b, 1, Len(a))

\* the texts a run has to ground a record in: the extracted text and every document
SourceTexts ==
    { LowerText(raw_text) } \cup { LowerText(web_results[i].content) : i \in 1..Len(web_results) }

C1_Grounded(r) == \E t \in SourceTexts : validate_tributo(r.tributo, t)

\* C1: in the final state of every completed run, every record of
\* system_changes.aliquotas names a tax whose patterns match the source text; a
\* record that fails the grounding of validate is not in the list any more.
C1_GroundingInvariant ==
    pc = "done" => \A i \in 1..Len(aliquotas) : C1_Grounded(aliquotas[i])

C2_Lower == LowerText(get_original_text(raw_text, web_results))

C2_Windows(r) == OrWholeText(find_tributo_contexts(r.tributo, C2_Lower, WINDOW), C2_Lower)

C2_Occurs(r, key) ==
    \E c \in 1..Len(C2_Windows(r)) : TypeInContext(C2_Lower, C2_Windows(r)[c], key)

\* the tax is grounded, no pattern of the assigned type is in its windows and a
\* pattern of another type is
C2_Mismatch(r) ==
    /\ validate_tributo(r.tributo, C2_Lower)
    /\ \A k \in KeysIn(r.tipo_mudanca) : ~C2_Occurs(r, k)
    /\ \E k \in Range(ChangeTypeKeys) \ KeysIn(r.tipo_mudanca) : C2_Occurs(r, k)

C2_Found(r) == TipoEncontrado(C2_Lower, C2_Windows(r))

C2_Reconciled(old, new) ==
    /\ new.tipo_mudanca = C2_Found(old)
    /\ new.situacao_nova = get_situacao_nova(C2_Found(old), old.tributo)
    /\ new.descricao_completa = << old.tributo, C2_Found(old) >>

C2_Example ==
    /\ raw_text = ExampleText
    /\ given = << Aliq("PIS", "ISENCAO", << "PIS", "ISENCAO" >>, << "llm" >>, 0) >>

\* C2: after validate, every record whose tax is grounded and whose assigned type
\* has no pattern in the windows around the tax while another type has one carries
\* the type found in the text and the description and new state written from it,
\* and each such record adds exactly 1 to corrections_made; PIS assigned ISENCAO
\* with the text "fica suspensa a exigencia da Contribuicao para o PIS" becomes
\* SUSPENSAO with one correction.
C2_TypeReconciliation ==
    (mode = "validate" /\ pc = "dell_relevance") =>
        /\ \A i \in 1..Len(given) :
               C2_Mismatch(given[i]) => C2_Reconciled(given[i], aliquotas[i])
        /\ (given # << >> /\ \A i \in 1..Len(given) : C2_Mismatch(given[i])) =>
               /\ validation_status # << >>
               /\ validation_status[1].corrections_made = Len(given)
        /\ C2_Example =>
               /\ aliquotas[1].tipo_mudanca = "SUSPENSAO"
               /\ validation_status[1].corrections_made = 1

\* C3: the enhancement stage runs if and only if the completeness score is below
\* 0.70 (needs_enhancement is true exactly then): with a score of at least 0.70
\* the impact analysis follows the scoring directly, with a lower score the
\* enhancement runs exactly once between the two.
C3_SingleConditionalBranch ==
    /\ "validate" \in Range(trace) =>
           /\ needs_enhancement <=> completeness < THRESHOLD
           /\ trace[Len(trace)] = "validate" =>
                  pc = IF completeness < THRESHOLD THEN "enhance" ELSE "analyze_impact"
    /\ \A i \in 1..Len(trace) :
           /\ trace[i] = "enhance" =>
                  /\ completeness < THRESHOLD
                  /\ trace[i - 1] = "validate"
                  /\ \A j \in 1..Len(trace) : trace[j] = "enhance" => j = i
           /\ trace[i] = "analyze_impact" =>
                  trace[i - 1] = IF completeness < THRESHOLD THEN "enhance" ELSE "validate"

C3_Witness ==
    /\ "analyze_impact" \in Range(trace)
    /\ "enhance" \in Range(trace)
    /\ completeness < THRESHOLD

\* C4: run() with neither a query nor a URL (url and urls absent or empty) fails
\* with the input error before any stage: no stage runs and nothing is returned;
\* run() with at least one of them does not raise this error.
C4_InputPrecondition ==
    /\ [](pc = "rejected" =>
              trace = << >> /\ final_analysis = << >> /\ failure = "ValueError")
    /\ [][\A q \in Queries, u \in UrlArgs, us \in UrlLists :
              Run(q, u, us) =>
                  (pc' = "rejected" <=> (q \in { None, "" } /\ u \in { None, "" } /\ us = << >>))]_vars
    /\ [][pc = "rejected" => pc' \in { "rejected", "input" } /\ runs' = runs + 1]_vars

C4_Witness == pc = "rejected" /\ failure = "ValueError" /\ runs > 0

StageOrder ==
    << "input", "search", "detect_type", "raw_extract", "extract_dates", "extract_numbers",
       "validate", "enhance", "analyze_impact", "system_changes", "validation_check",
       "dell_relevance", "review", "assemble" >>

StageOrderShort == SelectSeq(StageOrder, LAMBDA st : st # "enhance")

\* C5: the stages of a run that passed the input check are visited in the fixed
\* order, each at most once, with no loop and no branch other than the
\* enhancement; the validation of the changes runs after the date extraction and
\* the identification of the changes have written their lists, and before the
\* relevance analysis, the review and the assembly.
C5_StageOrdering ==
    /\ [](IsPrefix(trace, StageOrder) \/ IsPrefix(trace, StageOrderShort))
    /\ [](pc = "done" => trace \in { StageOrder, StageOrderShort })
    /\ [](pc = "validation_check" =>
              /\ { "extract_dates", "system_changes" } \subseteq Range(trace)
              /\ { "validation_check", "dell_relevance", "review", "assemble" }
                     \cap Range(trace) = { })
    /\ [][vigencias' # vigencias =>
              pc \in { "extract_dates", "validation_check", "review" } \cup Terminal]_vars
    /\ [][aliquotas' # aliquotas =>
              pc \in { "system_changes", "validation_check", "review" } \cup Terminal]_vars

C5_Witness == pc = "done" /\ trace = StageOrder

\* C6: a failure of a stage after the search does not end the run: run() ends
\* abnormally only on the input error or on the total failure of the search.
C6_FailurePropagation == pc = "crashed" => failure = "search"

ExtractionStages == Range(StageOrder) \ { "input", "search", "detect_type" }

\* C7: web_results is not empty whenever an extraction stage (the raw extraction
\* or any later stage) has started; a search that obtains no document aborts the run.
C7_EmptySourceAbort ==
    Range(trace) \cap ExtractionStages # { } => web_results # << >>

\* the run fetches the pages it was asked for (the urls argument, or URLs in the query)
C8_UrlPath == urls # << >> \/ extract_urls_from_text(state_query) # { }

C9_First(list, n) == SubSeq(list, 1, Min(n, Len(list)))

\* C9 as stated: for a known key, fewer than 3 extracted dates give the
\* knowledge-base list exactly and 3 or more give the extracted list exactly.
C9_Original ==
    /\ (mode = "merge" /\ pc = "extract_numbers" /\ date_key # None) =>
           vigencias = IF Len(given) < 3
                       THEN get_vigencias_for_legislation(kb, date_key) ELSE given
    /\ (mode = "merge" /\ pc = "merged") =>
           merged[1].vigencias = IF Len(given[1].vigencias) < 3
                                 THEN get_vigencias_for_legislation(kb, known_law_key)
                                 ELSE given[1].vigencias

\* C9: in the date extraction, for a known key whose knowledge-base list is not
\* empty, fewer than 3 extracted dates give the knowledge-base list exactly and 3
\* or more give the first 8 entries of the extracted list; for a known key with
\* no knowledge-base dates the extracted list is kept (its first 8 entries), and
\* followed by dates read from the text when it has fewer than 2 entries; the
\* lists are never interleaved; merge_with_extracted_data gives the
\* knowledge-base list for fewer than 3 entries and the extracted list otherwise.
C9_DateMerge ==
    /\ (mode = "merge" /\ pc = "extract_numbers" /\ date_key # None) =>
           IF get_vigencias_for_legislation(kb, date_key) # << >>
           THEN vigencias = IF Len(given) < KB_THRESHOLD
                            THEN get_vigencias_for_legislation(kb, date_key)
                            ELSE C9_First(given, DATES_LIMIT)
           ELSE IF Len(given) >= REGEX_THRESHOLD
                THEN vigencias = C9_First(given, DATES_LIMIT)
                ELSE IsPrefix(given, vigencias)
    /\ (mode = "merge" /\ pc = "merged") =>
           merged[1].vigencias = IF Len(given[1].vigencias) < 3
                                 THEN get_vigencias_for_legislation(kb, known_law_key)
                                 ELSE given[1].vigencias

C9_Witness ==
    /\ mode = "merge" /\ pc = "extract_numbers"
    /\ date_key = "LC_214"
    /\ Len(given) = 2
    /\ vigencias = kb.vigencias

C10_Extracted == extract_aliquota_changes_improved(given, raw_text)

C10_Valid(list) == list # << >> /\ list[1].tributo # SENTINEL

C11_KnowledgeBaseReadOnly == kb = KNOWLEDGE_BASE

\* the knowledge-base dates and changes a run would be handed if it were the only run
C12_Alone(key) ==
    [vigencias |-> get_vigencias_for_legislation(KNOWLEDGE_BASE, key),
     system_changes |-> get_system_changes_for_legislation(KNOWLEDGE_BASE, key)]

\* C12: a run observes no write of another run: the lists a run takes from the
\* knowledge base (the dates when fewer than 3 were extracted, the changes when
\* the extraction gave the sentinel) are the lists it would take if it were the
\* only run of the process.
C12_CrossRunIsolation ==
    /\ (mode = "run" /\ pc = "extract_numbers" /\ date_key = "LC_214"
            /\ Len(given) < KB_THRESHOLD) =>
           vigencias = C12_Alone(date_key).vigencias
    /\ (mode = "run" /\ pc = "validation_check" /\ known_law_key = "LC_214"
            /\ ~C10_Valid(extract_aliquota_changes_improved(given, raw_text))) =>
           aliquotas = C12_Alone(known_law_key).system_changes

\* C13: within one run, once known_law_key holds a key no later stage assigns it
\* a different value: the date extraction and the identification of the changes
\* write the key only while it is still None.
C13_KeyStability ==
    /\ [][(runs' = runs /\ known_law_key # None) => known_law_key' = known_law_key]_vars
    /\ [][(pc \in { "extract_dates", "system_changes" } /\ known_law_key' # known_law_key) =>
              known_law_key = None]_vars

\* the date extraction recognised another instrument than the one the run holds
C13_Witness ==
    /\ mode = "run"
    /\ pc = "extract_numbers"
    /\ known_law_key = "MPV_1318"
    /\ date_key = "LC_214"

\* the input the date extraction gives the detector: the address of the first
\* document and the consolidated content
C14_Url == web_results[1].url

C14_Content == consolidate_content(web_results)

\* the signals of LC_214: its address, its name, or the reform terms together
C14_SignalsLC ==
    \/ C14_Url = U_LC
    \/ ContentHas(C14_Content, <<"lei", "complementar", "no", "214">>)
    \/ \A ws \in { <<"ibs">>, <<"cbs">>, <<"imposto", "seletivo">> } : ContentHas(C14_Content, ws)
    \/ \A ws \in { <<"reforma", "tributaria">>, <<"ibs">> } : ContentHas(C14_Content, ws)

\* the signals of MPV_1318: its address or the name of the regime
C14_SignalsMPV ==
    \/ C14_Url = "https://planalto/mpv/mpv1318.htm"
    \/ ContentHas(C14_Content, <<"redata">>)

\* C14: the detector looks at the signals of LC_214 first and then at those of
\* MPV_1318 and answers the first key whose signals match: LC_214 when both
\* match, MPV_1318 when only its signals match, None when none matches; a content
\* that has "imposto seletivo" without the other reform terms is not LC_214.
C14_DetectorPrecedence ==
    (mode = "merge" /\ pc = "extract_numbers" /\ web_results # << >>) =>
        /\ (C14_SignalsLC /\ C14_SignalsMPV) => date_key = "LC_214"
        /\ (C14_SignalsLC /\ ~C14_SignalsMPV) => date_key = "LC_214"
        /\ (~C14_SignalsLC /\ C14_SignalsMPV) => date_key = "MPV_1318"
        /\ (~C14_SignalsLC /\ ~C14_SignalsMPV) => date_key = None
        /\ (/\ ContentHas(C14_Content, <<"imposto", "seletivo">>)
            /\ ~ContentHas(C14_Content, <<"ibs">>)
            /\ C14_Url # U_LC) => date_key # "LC_214"

\* a document that has the signals of both instruments
C14_Witness ==
    /\ mode = "merge" /\ pc = "extract_numbers" /\ web_results # << >>
    /\ C14_Url # U_LC
    /\ C14_SignalsLC /\ C14_SignalsMPV
    /\ date_key = "LC_214"

\* C15: when the input of the detector matches the signals of two different
\* knowledge-base keys, the detection gives no key: the run has no known
\* instrument and relies on the automatic extraction only.
C15_AmbiguousDefaultsNone ==
    (mode = "merge" /\ pc = "extract_numbers" /\ web_results # << >>
         /\ C14_SignalsLC /\ C14_SignalsMPV) =>
        /\ date_key = None
        /\ IF Len(given) >= REGEX_THRESHOLD
           THEN vigencias = C9_First(given, DATES_LIMIT)
           ELSE IsPrefix(given, vigencias)

\* the text the validation of a run grounds its records in
ValidationSource == LowerText(get_original_text(raw_text, web_results))

\* a date that is a duration, or is written in the source, or whose year is
C16_Grounded(v) ==
    \/ IsDuration(v.data)
    \/ \E i \in 1..Len(ValidationSource) : WordHasDate(ValidationSource[i], v.data)
    \/ /\ YearOf(v.data) # 0
       /\ \E i \in 1..Len(ValidationSource) : WordHasYear(ValidationSource[i], YearOf(v.data))

\* C16: after validate every entry left in the date list is a duration in years,
\* or its value is written in the source text ("/" and "-" alike), or its year is
\* in the source text: the calendar dates that are neither are removed; a
\* duration is never removed by validate.
C16_DateGrounding ==
    /\ [](pc = "dell_relevance" => \A i \in 1..Len(vigencias) : C16_Grounded(vigencias[i]))
    /\ [][pc = "validation_check" =>
              \A i \in 1..Len(vigencias) :
                  IsDuration(vigencias[i].data) => vigencias[i] \in Range(vigencias')]_vars

\* the deterministic step has an error for record i and the escalation left it as it was
C17_Unresolved(i) ==
    /\ CheckRecord(given[i], ValidationSource).errs # << >>
    /\ aliquotas[i] = given[i]

\* C17: at the end of validate the confidence is "media" if and only if some
\* record is still unresolved (neither confirmed nor corrected by the
\* deterministic step or by the escalation), and "alta" otherwise;
\* corrections_made is the number of corrections applied by the two steps.
C17_ConfidenceLevel ==
    (pc = "dell_relevance" /\ validation_status # << >>) =>
        /\ validation_status[1].confidence =
               IF \E i \in 1..Len(given) : C17_Unresolved(i) THEN "media" ELSE "alta"
        /\ \E cs \in Corrections :
               /\ aliquotas =
                      ApplyCorrections(DeterministicStep(given, ValidationSource).aliquotas, cs, 1)
               /\ validation_status[1].corrections_made =
                      DeterministicStep(given, ValidationSource).corrections_made
                      + CountApplied(given, cs, 1)

\* C18: validation_status is written by the validation only, once in a run, and
\* every run that is done has it, with validated, corrections_made, errors and
\* confidence.
C18_StatusWrittenOnce ==
    /\ [](pc = "done" =>
              /\ validation_status # << >>
              /\ DOMAIN validation_status[1] =
                     { "validated", "corrections_made", "errors", "confidence" })
    /\ [][validation_status' # validation_status => pc \in { "validation_check" } \cup Terminal]_vars
    /\ [][(pc = "validation_check" /\ pc' # "crashed") => validation_status' # << >>]_vars

\* the field is left alone by every stage that is not one of its writers (run()
\* itself builds a new state when it starts)
C19_Frame(changed, writers) == changed => pc \in writers \cup Terminal

\* C19: every stage writes its own fields of the state only; the validation is
\* the only stage that changes the list of changes and the list of dates after
\* the stages that produced them.
C19_StageIsolation ==
    [][/\ C19_Frame(web_results' # web_results, { "search" })
       /\ C19_Frame(legislation_type' # legislation_type, { "detect_type" })
       /\ C19_Frame(raw_text' # raw_text, { "raw_extract" })
       /\ C19_Frame(vigencias' # vigencias, { "extract_dates", "validation_check" })
       /\ C19_Frame(percentuais' # percentuais, { "extract_numbers" })
       /\ C19_Frame(completeness' # completeness, { "validate" })
       /\ C19_Frame(needs_enhancement' # needs_enhancement, { "validate" })
       /\ C19_Frame(enhanced' # enhanced, { "enhance" })
       /\ C19_Frame(impact_done' # impact_done, { "analyze_impact" })
       /\ C19_Frame(aliquotas' # aliquotas, { "system_changes", "validation_check" })
       /\ C19_Frame(known_law_key' # known_law_key,
                    { "input", "detect_type", "extract_dates", "system_changes" })
       /\ C19_Frame(validation_status' # validation_status, { "input", "validation_check" })
       /\ C19_Frame(dell_done' # dell_done, { "dell_relevance" })
       /\ C19_Frame(final_analysis' # final_analysis, { "assemble" })]_vars

\* C20: in every state of a run, and in the final one, the tax of every record
\* of system_changes.aliquotas is one of the fixed tax identifiers.
C20_ControlledVocabulary ==
    \A i \in 1..Len(aliquotas) : aliquotas[i].tributo \in tributos_conhecidos

\* the validated run of the validation engine: the source text was not empty
ValidationRan == mode = "validate" /\ pc = "dell_relevance" /\ raw_text # << >>

C21_Customs(lt) ==
    \E i \in 1..Len(lt) :
        lt[i] \in { "importacao", "importado", "alfandega", "aduaneiro", "estrangeiro" }

C21_Markers == { "iii", "iv", "v", "art.", "§" }

\* an occurrence of "ii" at position i with a marker of an enumeration next to it
C21_Enumerated(lt, i) ==
    \/ i > 1 /\ lt[i - 1] \in C21_Markers
    \/ i < Len(lt) /\ lt[i + 1] \in C21_Markers
    \/ i + 1 < Len(lt) /\ lt[i + 1] = "," /\ lt[i + 2] \in C21_Markers

C21_Accepted(lt) ==
    /\ C21_Customs(lt)
    /\ \E i \in 1..Len(lt) : lt[i] = "ii" /\ ~C21_Enumerated(lt, i)

\* C21: after validate, a record named II is in system_changes.aliquotas only if
\* the source text has an import context and an occurrence of II that no marker of
\* an enumeration is next to; with the source "conforme incisos II, III" the record
\* named II is not in the list any more.
C21_ImportDutyFalsePositive ==
    ValidationRan =>
        /\ \A i \in 1..Len(aliquotas) :
               aliquotas[i].tributo = "II" => C21_Accepted(LowerText(raw_text))
        /\ raw_text = EnumerationText =>
               \A i \in 1..Len(aliquotas) : aliquotas[i].tributo # "II"

\* the record r names a grounded tax and a pattern of a type it is assigned
\* matches in one of the windows around the tax
C22_AssignedTypeFound(r) ==
    /\ validate_tributo(r.tributo, C2_Lower)
    /\ \E k \in KeysIn(r.tipo_mudanca) : C2_Occurs(r, k)

\* C22: after a validate that made no escalation call, every record whose assigned
\* type has a pattern in a window around its tax is as it was (type, new state and
\* description), no error names its tax, and corrections_made counts at most the
\* other records; this for every text, also when another type matches in the window.
C22_Confirmation ==
    (ValidationRan /\ llm_calls = 0) =>
        /\ \A i \in 1..Len(given) :
               C22_AssignedTypeFound(given[i]) =>
                   /\ aliquotas[i] = given[i]
                   /\ \A e \in 1..Len(validation_status[1].errors) :
                          validation_status[1].errors[e].tributo # given[i].tributo
        /\ validation_status[1].corrections_made <=
               Cardinality({ i \in 1..Len(given) : ~C22_AssignedTypeFound(given[i]) })

C23_Half(r, key) == C2_Occurs(r, key)

\* C23: after a validate that made no escalation call, a record assigned the
\* composite type whose tax is grounded keeps the composite when a suspension
\* pattern and a zero-rate pattern are both in the windows around the tax, carries
\* SUSPENSAO when only a suspension pattern is there, and ALIQUOTA 0% when only a
\* zero-rate pattern is there.
C23_CompositeType ==
    (ValidationRan /\ llm_calls = 0) =>
        \A i \in 1..Len(given) :
            (given[i].tipo_mudanca = Composite /\ validate_tributo(given[i].tributo, C2_Lower)) =>
                /\ (C23_Half(given[i], "SUSPENSAO") /\ C23_Half(given[i], "ALIQUOTA 0%")) =>
                       aliquotas[i].tipo_mudanca = Composite
                /\ (C23_Half(given[i], "SUSPENSAO") /\ ~C23_Half(given[i], "ALIQUOTA 0%")) =>
                       aliquotas[i].tipo_mudanca = "SUSPENSAO"
                /\ (~C23_Half(given[i], "SUSPENSAO") /\ C23_Half(given[i], "ALIQUOTA 0%")) =>
                       aliquotas[i].tipo_mudanca = "ALIQUOTA 0%"

\* a pattern of the type key lies within 300 characters of an occurrence of the
\* tax of r in the source text
C24_Near(r, key) ==
    LET lt == C2_Lower
        pats == PatternsFor(TributoKey(r.tributo), r.tributo)
    IN  \E k \in 1..Len(pats), i \in 1..Len(lt), j \in 1..Len(lt),
           ws \in change_type_patterns(key) :
            /\ PatAt(lt, i, pats[k])
            /\ PhraseAt(lt, j, ws)
            /\ StartOf(lt, j) >= StartOf(lt, i) - 300
            /\ EndOf(lt, j + Len(ws) - 1) <= EndOf(lt, i + Len(pats[k].ws) - 1) + 300

C24_NothingNear(r) ==
    /\ validate_tributo(r.tributo, C2_Lower)
    /\ \A k \in 1..Len(ChangeTypeKeys) : ~C24_Near(r, ChangeTypeKeys[k])

C24_ErrorsFor(t) ==
    { e \in 1..Len(validation_status[1].errors) : validation_status[1].errors[e].tributo = t }

C25_EscalationBounded ==
    /\ [][llm_calls' # llm_calls =>
             \/ llm_calls' = 0
             \/ /\ pc = "validation_check"
                /\ llm_calls = 0 /\ llm_calls' = 1
                /\ validation_status' # << >>
                /\ Len(validation_status'[1].errors) \in 1..3]_vars
    /\ [][(pc = "validation_check" /\ pc' = "dell_relevance" /\ validation_status' # << >>
           /\ Len(validation_status'[1].errors) \notin 1..3) =>
              llm_calls' = llm_calls]_vars

\* a validation that left four errors and issued no call
C25_FourErrors ==
    /\ mode = "run"
    /\ pc = "dell_relevance"
    /\ validation_status # << >>
    /\ Len(validation_status[1].errors) = 4
    /\ llm_calls = 0

\* a validation that issued the call once
C25_Witness ==
    /\ mode = "run"
    /\ pc = "dell_relevance"
    /\ validation_status # << >>
    /\ llm_calls = 1

\* what _validate_via_llm would return if it kept only the entries with evidence
C26_Evidenced ==
    { FilterValidacoes(SelectSeq(vs, LAMBDA v : v.evidencia # "")) : vs \in Answers }

\* C26: after validate, the records and corrections_made are those of the
\* deterministic steps with only corrections applied that the escalation call
\* returned with evidence; an entry without evidence changes no record and adds
\* nothing to corrections_made.
C26_EvidenceRequired ==
    ValidationRan =>
        \E det \in { DeterministicStep(given, C2_Lower) } : \E cs \in C26_Evidenced :
            /\ aliquotas = ApplyCorrections(det.aliquotas, cs, 1)
            /\ validation_status[1].corrections_made =
                   det.corrections_made + CountApplied(det.aliquotas, cs, 1)

\* the changes handed to the validation are the records of the knowledge base
C27_FromKB == given # << >> /\ \A i \in 1..Len(given) : given[i].kb # 0

C27_Errors == validation_status[1].errors

\* C27: after a validate that had a source text, a record whose tax is grounded
\* and whose type has none of the five keys has exactly one error of the kind
\* "unconfirmed" and is as it was unless the escalation call corrected it; and
\* when the changes of the run are the records of the LC 214 knowledge base the
\* error list is not empty.
C27_TypesOutsideTable ==
    (mode = "run" /\ pc = "dell_relevance" /\ validation_status # << >>) =>
        /\ \A i \in 1..Len(given) :
               (validate_tributo(given[i].tributo, ValidationSource)
                /\ KeysIn(given[i].tipo_mudanca) = { }) =>
                   /\ Cardinality({ e \in 1..Len(C27_Errors) :
                                      /\ C27_Errors[e].tributo = given[i].tributo
                                      /\ C27_Errors[e].kind = "unconfirmed" }) = 1
                   /\ \/ aliquotas[i] = given[i]
                      \/ /\ llm_calls = 1
                         /\ \E c \in CorrectionPool :
                                /\ c.tributo = given[i].tributo
                                /\ aliquotas[i] = ApplyCorrection(<< given[i] >>, c)[1]
        /\ C27_FromKB => C27_Errors # << >>

\* C28: in every run, once the date extraction has detected a key from the
\* consolidated content of the first two documents (the key it takes its fallback
\* dates from), that key is the key the state holds, which TypeDetect stored and
\* the identification of the changes is given.
C28_OneKeyPerRun ==
    (mode = "run" /\ date_key # None) => date_key = known_law_key

\* C29: after the review the list of dates has at most max_dates_allowed (6)
\* entries and the count written in date_extraction equals its length, for
\* every list of up to 8 calendar and duration entries handed to the review.
C29_Reviewed == mode = "review" /\ pc = "assemble"

C29_ReviewDateCap ==
    C29_Reviewed => Len(vigencias) <= max_dates_allowed /\ count = Len(vigencias)

\* the review has run over seven durations and kept them all
C29_SevenDurations ==
    /\ C29_Reviewed
    /\ Len(vigencias) = 7
    /\ \A i \in 1..7 : IsDuration(vigencias[i].data)

\* the validation has emptied the list and the review has left the old count
C29_StaleCount == C29_Reviewed /\ vigencias = << >> /\ count > 0

\* C30: the two validators of tax names agree: a record the extraction has
\* grounded in the extracted text with _validate_tributo_in_source and the
\* post-processing has kept (the renamed import duty included) is accepted by
\* ValidationAgent._validate_tributo against the same text.
C30_SourceAccepts(a, lt) ==
    /\ a.kb = 0
    /\ a.tributo # SENTINEL
    /\ validate_tributo_in_source(IF a.tributo = II_RENAMED THEN "II" ELSE a.tributo, lt)

C30_ValidatorsAgree ==
    (mode = "run" /\ pc = "validation_check" /\ raw_text # << >>)
        => \A i \in 1..Len(aliquotas) :
               C30_SourceAccepts(aliquotas[i], LowerText(raw_text))
                   => validate_tributo(aliquotas[i].tributo, LowerText(raw_text))

====
